---- MODULE Spec2Model ----
(***************************************************************************)
(* A model of the Congressional trading dashboard backend: the collectors  *)
(* of data_collector.py and real_data_scraper.py writing members, trades   *)
(* and committees through one SQLAlchemy session, the maintenance scripts, *)
(* and the listing endpoints of routers/.                                  *)
(*                                                                         *)
(* Strings are sequences of one-character strings, so that LIKE matching,  *)
(* the regular-expression strips and float() are computed and not assumed. *)
(***************************************************************************)
EXTENDS Integers, Sequences, FiniteSets, TLC

(***************************************************************************)
(* Bounds of the model.                                                    *)
(***************************************************************************)
\* raw records (feed records, table rows, API entries) handled and requests
\* that fail or return a non-success status, over all runs
MaxEvents == 2
\* entries of the feed's directory listing
MaxFiles == 2
\* links of the House index page beyond the cap of the scraper
MaxExtraLinks == 1
\* collection runs
MaxRuns == 2
\* the day datetime.utcnow() falls on
Today == 739300

(***************************************************************************)
(* Strings.                                                                *)
(***************************************************************************)
Digits == <<"0", "1", "2", "3", "4", "5", "6", "7", "8", "9">>

UpperCase == <<"A", "B", "C", "D", "E", "F", "G", "H", "I", "J", "K", "L", "M",
               "N", "O", "P", "Q", "R", "S", "T", "U", "V", "W", "X", "Y", "Z">>

LowerCase == <<"a", "b", "c", "d", "e", "f", "g", "h", "i", "j", "k", "l", "m",
               "n", "o", "p", "q", "r", "s", "t", "u", "v", "w", "x", "y", "z">>

Range(s) == {s[i] : i \in 1..Len(s)}

IsDigit(c) == c \in Range(Digits)

DigitVal(c) == (CHOOSE i \in 1..10 : Digits[i] = c) - 1

\* str.lower() of one character
Lower(c) ==
    IF c \in Range(UpperCase)
    THEN LowerCase[CHOOSE i \in 1..26 : UpperCase[i] = c]
    ELSE c

\* the characters of s that satisfy Keep, in order (re.sub of the others by '')
RECURSIVE StripChars(_, _)
StripChars(s, drop) ==
    IF s = <<>> THEN <<>>
    ELSE IF Head(s) \in drop THEN StripChars(Tail(s), drop)
    ELSE <<Head(s)>> \o StripChars(Tail(s), drop)

RECURSIVE KeepChars(_, _)
KeepChars(s, keep) ==
    IF s = <<>> THEN <<>>
    ELSE IF Head(s) \in keep THEN <<Head(s)>> \o KeepChars(Tail(s), keep)
    ELSE KeepChars(Tail(s), keep)

\* str.split(sep) for a one-character separator: a sequence of strings
RECURSIVE Split(_, _)
Split(s, sep) ==
    IF \A i \in 1..Len(s) : s[i] # sep THEN <<s>>
    ELSE LET k == CHOOSE i \in 1..Len(s) :
                      s[i] = sep /\ \A j \in 1..(i - 1) : s[j] # sep
         IN  <<SubSeq(s, 1, k - 1)>> \o Split(SubSeq(s, k + 1, Len(s)), sep)

\* str.strip() of blanks
RECURSIVE LStrip(_)
LStrip(s) == IF s # <<>> /\ Head(s) = " " THEN LStrip(Tail(s)) ELSE s

RECURSIVE RStrip(_)
RStrip(s) ==
    IF s # <<>> /\ s[Len(s)] = " " THEN RStrip(SubSeq(s, 1, Len(s) - 1)) ELSE s

Strip(s) == RStrip(LStrip(s))

\* SQL LIKE: % is any run, _ any one character; ci: letters match in any case
RECURSIVE SqlLike(_, _, _)
SqlLike(s, p, ci) ==
    IF p = <<>> THEN s = <<>>
    ELSE IF Head(p) = "%"
         THEN SqlLike(s, Tail(p), ci) \/ (s # <<>> /\ SqlLike(Tail(s), p, ci))
    ELSE /\ s # <<>>
         /\ \/ Head(p) = "_"
            \/ Head(s) = Head(p)
            \/ ci /\ Lower(Head(s)) = Lower(Head(p))
         /\ SqlLike(Tail(s), Tail(p), ci)

\* Column.ilike(pattern)
ILike(s, p) == SqlLike(s, p, TRUE)

\* Column.ilike(f"%{x}%")
ILikeContains(s, x) == ILike(s, <<"%">> \o x \o <<"%">>)

(***************************************************************************)
(* Raw values.  A key of a raw JSON record holds a string, or null, or is  *)
(* absent; dict.get(key, default) gives the default only when absent.      *)
(***************************************************************************)
Null == <<"<null>">>

Missing == <<"<missing>">>

Get(v, default) == IF v = Missing THEN default ELSE v

\* Python's truth of a string or None
Truthy(v) == v \notin {<<>>, Null}

(***************************************************************************)
(* Numbers.  A float is a sign, a whole part and the fraction's digits     *)
(* without trailing zeros; None is a value of its own.                     *)
(***************************************************************************)
None == [none |-> TRUE]

RECURSIVE DropTrailingZeros(_)
DropTrailingZeros(d) ==
    IF d # <<>> /\ d[Len(d)] = "0"
    THEN DropTrailingZeros(SubSeq(d, 1, Len(d) - 1))
    ELSE d

RECURSIVE DigitsToNat(_)
DigitsToNat(d) ==
    IF d = <<>> THEN 0
    ELSE 10 * DigitsToNat(SubSeq(d, 1, Len(d) - 1)) + DigitVal(d[Len(d)])

MkFloat(sign, whole, frac) ==
    [s |-> IF whole = 0 /\ frac = <<>> THEN 1 ELSE sign, w |-> whole, f |-> frac]

Num(n) == MkFloat(IF n < 0 THEN -1 ELSE 1, IF n < 0 THEN -n ELSE n, <<>>)

\* a <= b on floats
RECURSIVE FracLE(_, _)
FracLE(a, b) ==
    IF a = <<>> THEN TRUE
    ELSE IF b = <<>> THEN FALSE
    ELSE IF DigitVal(Head(a)) # DigitVal(Head(b))
         THEN DigitVal(Head(a)) < DigitVal(Head(b))
    ELSE FracLE(Tail(a), Tail(b))

MagLE(a, b) == a.w < b.w \/ (a.w = b.w /\ FracLE(a.f, b.f))

FloatLE(a, b) ==
    IF a.s # b.s THEN a.s < b.s
    ELSE IF a.s = 1 THEN MagLE(a, b) ELSE MagLE(b, a)

\* Python's float(str): blanks stripped, an optional sign, digits with at most
\* one point and at least one digit.  (The alphabets drawn here hold no
\* exponent, underscore, "inf" or "nan".)
PyFloat(str) ==
    LET t    == Strip(str)
        sgn  == IF t # <<>> /\ Head(t) = "-" THEN -1 ELSE 1
        body == IF t # <<>> /\ Head(t) \in {"-", "+"} THEN Tail(t) ELSE t
        pts  == {i \in 1..Len(body) : body[i] = "."}
        ok   == /\ \A i \in 1..Len(body) : IsDigit(body[i]) \/ body[i] = "."
                /\ Cardinality(pts) <= 1
                /\ \E i \in 1..Len(body) : IsDigit(body[i])
        k    == IF pts = {} THEN Len(body) + 1 ELSE CHOOSE i \in pts : TRUE
    IN  IF ok
        THEN [ok |-> TRUE,
              v  |-> MkFloat(sgn, DigitsToNat(SubSeq(body, 1, k - 1)),
                             DropTrailingZeros(SubSeq(body, k + 1, Len(body))))]
        ELSE [ok |-> FALSE, v |-> None]

\* CongressDataCollector._parse_amount: one string to one float or None
CollectorParseAmount(amount_str) ==
    IF amount_str \in {<<>>, Null} THEN None
    ELSE LET r == PyFloat(StripChars(amount_str, {"$", ","}))
         IN  IF r.ok THEN r.v ELSE None

\* RealDataScraper._parse_amount: one string to (min_amount, max_amount)
ScraperParseAmount(amount_str) ==
    LET s1    == StripChars(amount_str, {"$", ","})
        s2    == KeepChars(s1, Range(Digits) \cup {".", "-"})
        parts == Split(s2, "-")
        p1    == PyFloat(parts[1])
        p2    == PyFloat(parts[2])
        one   == PyFloat(s2)
        zero  == [min |-> Num(0), max |-> Num(0)]
    IN  IF "-" \in Range(s2)
        THEN IF parts[1] # <<>> /\ ~p1.ok THEN zero
             ELSE LET lo == IF parts[1] # <<>> THEN p1.v ELSE Num(0)
                  IN  IF parts[2] # <<>> /\ ~p2.ok THEN zero
                      ELSE [min |-> lo,
                            max |-> IF parts[2] # <<>> THEN p2.v ELSE lo]
        ELSE IF s2 = <<>> THEN zero
        ELSE IF one.ok THEN [min |-> one.v, max |-> one.v]
        ELSE zero

(***************************************************************************)
(* Dates.  A datetime is the proleptic Gregorian ordinal of its day, as    *)
(* date.toordinal() gives it.                                              *)
(***************************************************************************)
IsLeap(y) == (y % 4 = 0 /\ y % 100 # 0) \/ y % 400 = 0

DaysInMonth(y, m) ==
    IF m = 2 THEN (IF IsLeap(y) THEN 29 ELSE 28)
    ELSE IF m \in {4, 6, 9, 11} THEN 30 ELSE 31

RECURSIVE DaysBeforeMonth(_, _)
DaysBeforeMonth(y, m) ==
    IF m = 1 THEN 0 ELSE DaysBeforeMonth(y, m - 1) + DaysInMonth(y, m - 1)

ToOrdinal(y, m, d) ==
    365 * (y - 1) + ((y - 1) \div 4) - ((y - 1) \div 100) + ((y - 1) \div 400)
        + DaysBeforeMonth(y, m) + d

AllDigits(s) == \A i \in 1..Len(s) : IsDigit(s[i])

\* str.replace('Z', '+00:00')
RECURSIVE ReplaceZ(_)
ReplaceZ(s) ==
    IF s = <<>> THEN <<>>
    ELSE IF Head(s) = "Z" THEN <<"+", "0", "0", ":", "0", "0">> \o ReplaceZ(Tail(s))
    ELSE <<Head(s)>> \o ReplaceZ(Tail(s))

\* HH:MM:SS, each in range
IsClock(s) ==
    /\ Len(s) = 8
    /\ s[3] = ":" /\ s[6] = ":"
    /\ AllDigits(SubSeq(s, 1, 2)) /\ AllDigits(SubSeq(s, 4, 5)) /\ AllDigits(SubSeq(s, 7, 8))
    /\ DigitsToNat(SubSeq(s, 1, 2)) < 24
    /\ DigitsToNat(SubSeq(s, 4, 5)) < 60
    /\ DigitsToNat(SubSeq(s, 7, 8)) < 60

\* +HH:MM or -HH:MM
IsOffset(s) ==
    /\ Len(s) = 6
    /\ s[1] \in {"+", "-"} /\ s[4] = ":"
    /\ AllDigits(SubSeq(s, 2, 3)) /\ AllDigits(SubSeq(s, 5, 6))
    /\ DigitsToNat(SubSeq(s, 2, 3)) < 24
    /\ DigitsToNat(SubSeq(s, 5, 6)) < 60

\* datetime.fromisoformat: YYYY-MM-DD, then nothing or one separator
\* character, HH:MM:SS and an optional UTC offset.  [ok, day]
FromIsoFormat(s) ==
    LET y    == DigitsToNat(SubSeq(s, 1, 4))
        m    == DigitsToNat(SubSeq(s, 6, 7))
        d    == DigitsToNat(SubSeq(s, 9, 10))
        rest == SubSeq(s, 12, Len(s))
        ok   == /\ Len(s) >= 10
                /\ AllDigits(SubSeq(s, 1, 4)) /\ s[5] = "-"
                /\ AllDigits(SubSeq(s, 6, 7)) /\ s[8] = "-"
                /\ AllDigits(SubSeq(s, 9, 10))
                /\ y >= 1 /\ m \in 1..12 /\ d \in 1..DaysInMonth(y, m)
                /\ \/ Len(s) = 10
                   \/ /\ Len(s) = 19
                      /\ IsClock(rest)
                   \/ /\ Len(s) = 25
                      /\ IsClock(SubSeq(rest, 1, 8))
                      /\ IsOffset(SubSeq(rest, 9, 14))
    IN  IF ok THEN [ok |-> TRUE, day |-> ToOrdinal(y, m, d)]
        ELSE [ok |-> FALSE, day |-> 0]

(***************************************************************************)
(* Literals of the source.                                                 *)
(***************************************************************************)
Senate == <<"S", "e", "n", "a", "t", "e">>

House == <<"H", "o", "u", "s", "e">>

Unknown == <<"U", "n", "k", "n", "o", "w", "n">>

SenateStockWatcher == "Senate Stock Watcher"

HouseClerkWebsite == "House Clerk Website"

SenateFinancialDisclosures == "Senate Financial Disclosures"

(***************************************************************************)
(* State.                                                                  *)
(*   session   the rows the run's Session sees: committed, flushed, added  *)
(*   database  the committed rows                                          *)
(*   nextId    the next autoincrement id of each table                     *)
(*   pc        where the run is; key: whether a ProPublica key was given   *)
(*   files     entries of the directory listing still to walk              *)
(*   batch     the number of raw records in the file or page being         *)
(*             processed; idx: the next one; outcomes: what became of      *)
(*             those already handled                                       *)
(*   stage     the ProPublica request being made (1..4)                    *)
(*   links     detail pages of the House index still to fetch              *)
(*   member_name  the name extracted from the current detail page; in the  *)
(*             feed, the senator of the record handled last                *)
(*   runs, nrec, nfault: runs started, records handled, requests failed    *)
(*   trace     the collectors of this run in the order they started and    *)
(*             ended, with a mark where the first request of a source      *)
(*             failed; commits, fetched: commits and detail pages of it    *)
(*   response  the last answer of the API or of a maintenance script       *)
(*   autoflush whether the Sessions of SessionLocal flush what was added   *)
(*             before each query                                           *)
(*   concurrent  per caller of collect_congress_data, the step and the     *)
(*             uncommitted rows of a run on a Session of its own           *)
(***************************************************************************)
VARIABLES session, database, nextId, pc, key, files, batch, idx, outcomes,
          stage, links, member_name, runs, nrec, nfault, trace, commits,
          fetched, response, autoflush, concurrent

vars == <<session, database, nextId, pc, key, files, batch, idx, outcomes,
          stage, links, member_name, runs, nrec, nfault, trace, commits,
          fetched, response, autoflush, concurrent>>

storeVars == <<session, database, nextId>>

feedVars == <<files, batch, idx, outcomes>>

scrapeVars == <<links, member_name, fetched>>

EmptyStore ==
    [members |-> <<>>, trades |-> <<>>, committees |-> <<>>, memberships |-> <<>>]

NoResponse == [kind |-> "none"]

\* the callers of collect_congress_data that each open a Session of their
\* own: POST /api/collect-data (main.py:49-58) and the scheduled script
\* (scheduled_collection.py:29-50), a process of its own
Callers == {"trigger_data_collection", "scheduled_collection"}

\* a caller that is not running: no Session, nothing added
AtRest == [pc |-> "idle", added |-> EmptyStore, trade_data |-> Null, member |-> 0]

\* the next autoincrement id of a table that holds rows
NextIdOf(rows) ==
    IF rows = <<>> THEN 1
    ELSE 1 + (CHOOSE n \in {r.id : r \in Range(rows)} :
                  \A r \in Range(rows) : r.id <= n)

\* the program at rest over one of the stores
Seeded(stores) ==
    /\ runs = 0
    /\ database \in stores
    /\ session = database
    /\ nextId = [members |-> NextIdOf(database.members),
                 trades |-> NextIdOf(database.trades),
                 committees |-> NextIdOf(database.committees)]
    /\ pc = "idle"
    /\ key = FALSE
    /\ files = 0
    /\ batch = 0
    /\ idx = 1
    /\ outcomes = <<>>
    /\ stage = 1
    /\ links = 0
    /\ member_name = <<>>
    /\ nrec = 0
    /\ nfault = 0
    /\ trace = <<>>
    /\ commits = 0
    /\ fetched = 0
    /\ response = NoResponse
    /\ autoflush \in BOOLEAN
    /\ concurrent = [caller \in Callers |-> AtRest]

Init == Seeded({EmptyStore})

\* the outcome of a request: a 200 response, another status, an exception
Outcomes == {"ok", "status", "raise"}

Faulty(out) == out # "ok"

CountFault(out) ==
    /\ Faulty(out) => nrec + nfault < MaxEvents
    /\ nfault' = IF Faulty(out) THEN nfault + 1 ELSE nfault

(***************************************************************************)
(* collect_congress_data: the start of a run, with or without a key.  The  *)
(* caller opens a fresh Session, which sees the committed rows.            *)
(***************************************************************************)
StartRun(k) ==
    /\ pc = "idle"
    /\ runs < MaxRuns
    /\ runs' = runs + 1
    /\ key' = k
    /\ UNCHANGED <<autoflush, concurrent>>
    /\ session' = database
    /\ pc' = "feed_list"
    /\ trace' = <<"feed">>
    /\ commits' = 0
    /\ fetched' = 0
    /\ files' = 0
    /\ batch' = 0
    /\ idx' = 1
    /\ outcomes' = <<>>
    /\ stage' = 1
    /\ links' = 0
    /\ member_name' = <<>>
    /\ response' = NoResponse
    /\ UNCHANGED <<database, nextId, nrec, nfault>>

(***************************************************************************)
(* Rows.  by and run say which collector added a row and in which run, raw *)
(* the amount texts a trade was made from; they are not columns.           *)
(***************************************************************************)
MemberRow(id, name, chamber, state, party, by) ==
    [id |-> id, name |-> name, chamber |-> chamber, state |-> state,
     party |-> party, by |-> by, run |-> runs]

TradeRow(id, member_id, ticker, transaction_type, transaction_date, amount_min, amount_max, description, source, raw) ==
    [id |-> id, member_id |-> member_id, ticker |-> ticker,
     transaction_type |-> transaction_type,
     transaction_date |-> transaction_date,
     amount_min |-> amount_min, amount_max |-> amount_max,
     amount_exact |-> None, description |-> description,
     source |-> source, raw |-> raw, run |-> runs]

\* a Legislator that is not added: the id is handed out, the row is not there
MemberSkipped(s, ids, name, chamber, state, party, by) ==
    [session |-> s, nextId |-> [ids EXCEPT !.members = @ + 1]]

\* db.add(member); db.flush(): the row gets the next id
AddMember(s, ids, name, chamber, state, party, by) ==
    [session |-> [s EXCEPT !.members =
                      Append(@, MemberRow(ids.members, name, chamber, state, party, by))],
     nextId  |-> [ids EXCEPT !.members = @ + 1]]

\* a trade added only when the session holds none like it
AddTradeOnce(s, ids, member_id, ticker, transaction_type, transaction_date, amount_min, amount_max, description, source, raw) ==
    IF \E t \in Range(s.trades) :
           /\ t.member_id = member_id /\ t.ticker = ticker
           /\ t.transaction_type = transaction_type
           /\ t.transaction_date = transaction_date /\ t.source = source
    THEN [session |-> s, nextId |-> ids]
    ELSE [session |-> [s EXCEPT !.trades =
                          Append(@, TradeRow(ids.trades, member_id, ticker,
                                             transaction_type, transaction_date,
                                             amount_min, amount_max, description,
                                             source, raw))],
          nextId  |-> [ids EXCEPT !.trades = @ + 1]]

\* db.add(trade)
AddTrade(s, ids, member_id, ticker, transaction_type, transaction_date, amount_min, amount_max, description, source, raw) ==
    [session |-> [s EXCEPT !.trades =
                      Append(@, TradeRow(ids.trades, member_id, ticker,
                                         transaction_type, transaction_date,
                                         amount_min, amount_max, description,
                                         source, raw))],
     nextId  |-> [ids EXCEPT !.trades = @ + 1]]

(***************************************************************************)
(* CongressDataCollector._save_senate_trade.                               *)
(***************************************************************************)
\* a raw record of the feed: a JSON object, or something that is not one
RawTrade(senator, state, party, ticker, type, transaction_date, amount_min, amount_max, description, filing_date) ==
    [dict |-> TRUE, senator |-> senator, state |-> state, party |-> party,
     ticker |-> ticker, type |-> type, transaction_date |-> transaction_date,
     amount_min |-> amount_min, amount_max |-> amount_max,
     description |-> description, filing_date |-> filing_date]

NotADict ==
    [RawTrade(Missing, Missing, Missing, Missing, Missing, Missing, Missing,
              Missing, Missing, Missing) EXCEPT !.dict = FALSE]

\* a query that finds nobody
NoMatches(s, senator_name) == {}

\* the members the query of lines 77-82 matches, as ids
SenateMatches(s, senator_name) ==
    {m.id : m \in {x \in Range(s.members) :
                       ILikeContains(x.name, senator_name) /\ x.chamber = Senate}}

\* .first(): one of the matching rows (the query gives no order), or none
FirstOf(matches) == IF matches = {} THEN {0} ELSE matches

\* a parser that takes any text for a date
AnyDate(raw) == [ok |-> TRUE, day |-> Today]

\* datetime.fromisoformat(raw.replace('Z', '+00:00')); None has no replace
ParseDate(raw) ==
    IF raw = Null THEN [ok |-> FALSE, day |-> 0]
    ELSE FromIsoFormat(ReplaceZ(raw))

\* What one call does to the session: [session, nextId, outcome], outcome
\* "stored", "skipped" (the early return) or "raised" (the except branch).
\* member is the id .first() gave, 0 for none.
SaveSenateTrade(s, ids, trade_data, member) ==
    LET senator_name == Get(trade_data.senator, <<>>)
        keep    == [session |-> s, nextId |-> ids]
        state   == Get(trade_data.state, <<>>)
        \* MemberCreate(...) validates: state must be a string
        created == AddMember(s, ids, senator_name, Senate, state,
                             Get(trade_data.party, <<>>), "feed")
        found   == IF member = 0 THEN created ELSE keep
        mid     == IF member = 0 THEN ids.members ELSE member
        date    == ParseDate(Get(trade_data.transaction_date, <<>>))
        filing  == Get(trade_data.filing_date, Null)
        raw_min == Get(trade_data.amount_min, <<>>)
        raw_max == Get(trade_data.amount_max, <<>>)
        stored  == AddTrade(found.session, found.nextId, mid,
                            Get(trade_data.ticker, <<>>),
                            Get(trade_data.type, <<>>),
                            date.day,
                            CollectorParseAmount(raw_min),
                            CollectorParseAmount(raw_max),
                            Get(trade_data.description, <<>>),
                            SenateStockWatcher, <<raw_min, raw_max>>)
    IN  IF ~trade_data.dict THEN keep @@ [outcome |-> "raised"]
        ELSE IF ~Truthy(senator_name) THEN keep @@ [outcome |-> "skipped"]
        ELSE IF member = 0 /\ state = Null THEN keep @@ [outcome |-> "raised"]
        ELSE IF ~date.ok THEN found @@ [outcome |-> "raised"]
        ELSE IF Truthy(filing) /\ ~ParseDate(filing).ok
             THEN found @@ [outcome |-> "raised"]
        ELSE stored @@ [outcome |-> "stored"]

(***************************************************************************)
(* collect_senate_stock_data, _process_senate_file: the structured feed.   *)
(* What a listing or a file holds is drawn when the collector reads it.    *)
(***************************************************************************)
\* a run that ends with its first collector
Aborted == "commit"

\* an orchestrator that starts the scraper where the feed collector ends
ScraperNext == "scrape_house"

\* what collect_congress_data does once collect_senate_stock_data has
\* returned, however it went: collect_house_trading_data (line 405)
AfterFeed == "house"

\* the listing request (line 38): n entries on a 200 response
CollectSenateStockData(out, n) ==
    /\ pc = "feed_list"
    /\ CountFault(out)
    /\ IF out = "ok"
       THEN /\ files' = n
            /\ pc' = "feed_files"
            /\ trace' = trace
       ELSE /\ files' = 0
            /\ pc' = AfterFeed
            /\ trace' = trace \o <<"feed_fault", "feed_end", AfterFeed>>
    /\ response' = NoResponse
    /\ UNCHANGED <<storeVars, key, autoflush, concurrent, batch, idx, outcomes, stage, scrapeVars,
                   runs, nrec, commits>>

\* the listing is exhausted (line 42)
SenateFilesDone ==
    /\ pc = "feed_files"
    /\ files = 0
    /\ pc' = AfterFeed
    /\ trace' = trace \o <<"feed_end", AfterFeed>>
    /\ response' = NoResponse
    /\ UNCHANGED <<storeVars, key, autoflush, concurrent, feedVars, stage, scrapeVars, runs, nrec,
                   nfault, commits>>

\* an entry whose name does not end in .json (line 43)
SkipListingEntry ==
    /\ pc = "feed_files"
    /\ files > 0
    /\ files' = files - 1
    /\ response' = NoResponse
    /\ UNCHANGED <<storeVars, pc, key, autoflush, concurrent, batch, idx, outcomes, stage, scrapeVars,
                   runs, nrec, nfault, trace, commits>>

\* an entry without a name or a download_url: the KeyError leaves the loop
\* for the except branch of line 48
BadListingEntry ==
    /\ pc = "feed_files"
    /\ files > 0
    /\ nrec + nfault < MaxEvents
    /\ nfault' = nfault + 1
    /\ files' = 0
    /\ pc' = AfterFeed
    /\ trace' = trace \o <<"feed_end", AfterFeed>>
    /\ response' = NoResponse
    /\ UNCHANGED <<storeVars, key, autoflush, concurrent, batch, idx, outcomes, stage, scrapeVars,
                   runs, nrec, commits>>

\* a failing file ends the whole loop over the listing
Abandon(left) == 0

\* the except branch of line 63 returns to the loop of line 42: the entries
\* of the listing after a failing file are still to come
AfterFileFault(left) == left - 1

\* _process_senate_file: the request of line 56; n records on a 200 response
\* whose body parses.  Another status, an exception of the request or of
\* response.json() end this file only.
ProcessSenateFile(out, n) ==
    /\ pc = "feed_files"
    /\ files > 0
    /\ CountFault(out)
    /\ nrec + nfault + n <= MaxEvents
    /\ IF out = "ok"
       THEN /\ batch' = n
            /\ idx' = 1
            /\ outcomes' = <<>>
            /\ pc' = "feed_records"
            /\ files' = files
       ELSE /\ files' = AfterFileFault(files)
            /\ UNCHANGED <<batch, idx, outcomes, pc>>
    /\ response' = NoResponse
    /\ UNCHANGED <<storeVars, key, autoflush, concurrent, stage, scrapeVars, runs, nrec, trace, commits>>

\* a loop that a raising record ends
RecordsAbandoned ==
    idx > batch \/ (outcomes # <<>> /\ outcomes[Len(outcomes)] = "raised")

\* the loops over the records of a file (line 60) and over the rows of a
\* page (lines 97-103) end when there is no further record
RecordsExhausted == idx > batch

\* one pass of the loop of line 60
SenateRecord(trade_data) ==
    /\ pc = "feed_records"
    /\ ~RecordsExhausted
    /\ \E member \in FirstOf(SenateMatches(session, Get(trade_data.senator, <<>>))) :
           LET r == SaveSenateTrade(session, nextId, trade_data, member)
           IN  /\ session' = r.session
               /\ nextId' = r.nextId
               /\ outcomes' = Append(outcomes, r.outcome)
    /\ idx' = idx + 1
    /\ nrec' = nrec + 1
    /\ member_name' = IF trade_data.dict THEN Get(trade_data.senator, <<>>) ELSE <<>>
    /\ response' = NoResponse
    /\ UNCHANGED <<database, pc, key, autoflush, concurrent, files, batch, stage, links, fetched, runs,
                   nfault, trace, commits>>

\* the file's records are exhausted
SenateFileDone ==
    /\ pc = "feed_records"
    /\ RecordsExhausted
    /\ pc' = "feed_files"
    /\ files' = files - 1
    /\ batch' = 0
    /\ idx' = 1
    /\ outcomes' = <<>>
    /\ member_name' = <<>>
    /\ response' = NoResponse
    /\ UNCHANGED <<storeVars, key, autoflush, concurrent, stage, links, fetched, runs, nrec, nfault,
                   trace, commits>>

(***************************************************************************)
(* collect_house_trading_data: _collect_capitol_gains_data and             *)
(* _collect_stock_act_disclosures only log.                                *)
(***************************************************************************)
\* an orchestrator that goes on to the scraper with or without a key
StraightToScraper == "scrape_house"

\* collect_propublica_data called whether a key was given or not
KeyUnchecked == "propublica"

\* what follows collect_house_trading_data: collect_propublica_data if a key
\* was given (lines 408-409), else scrape_real_data (line 414)
AfterHouse == IF key THEN "propublica" ELSE "scrape_house"

CollectHouseTradingData ==
    /\ pc = "house"
    /\ pc' = AfterHouse
    /\ trace' = trace \o <<"house_end",
                            IF AfterHouse = "propublica" THEN "propublica" ELSE "scrape">>
    /\ stage' = 1
    /\ response' = NoResponse
    /\ UNCHANGED <<storeVars, key, autoflush, concurrent, feedVars, scrapeVars, runs, nrec, nfault,
                   commits>>

(***************************************************************************)
(* collect_propublica_data: members of both chambers, then committees of   *)
(* both.  stage 1, 2: members of house, senate; 3, 4: committees.          *)
(***************************************************************************)
Chambers == <<House, Senate>>

StageChamber(st) == Chambers[((st - 1) % 2) + 1]

\* str(x) inside an f-string: None prints as "None"
FStr(v) == IF v \in {Null, Missing} THEN <<"N", "o", "n", "e">> ELSE v

\* the request of line 314 or 363.  An exception (of the request, of
\* response.json() or of the subscripts of line 318 or 367) leaves
\* collect_propublica_data through its except branch.
PropublicaRequest(out, n) ==
    /\ pc = "propublica"
    /\ CountFault(out)
    /\ nrec + nfault + n <= MaxEvents
    /\ IF out = "ok"
       THEN /\ batch' = n
            /\ idx' = 1
            /\ outcomes' = <<>>
            /\ pc' = "propublica_records"
            /\ UNCHANGED <<stage, trace>>
       ELSE IF out = "status" /\ stage < 4
       THEN /\ stage' = stage + 1
            /\ UNCHANGED <<batch, idx, outcomes, pc, trace>>
       ELSE /\ pc' = "scrape_house"
            /\ trace' = trace \o (IF stage = 1 THEN <<"propublica_fault">> ELSE <<>>)
                               \o <<"propublica_end", "scrape">>
            /\ UNCHANGED <<batch, idx, outcomes, stage>>
    /\ response' = NoResponse
    /\ UNCHANGED <<storeVars, key, autoflush, concurrent, files, scrapeVars, runs, nrec, commits>>

RawMember(first_name, last_name, state, party) ==
    [dict |-> TRUE, first_name |-> first_name, last_name |-> last_name,
     state |-> state, party |-> party]

\* the members the query of lines 327-332 matches, as ids
PropublicaMatches(s, member_data, chamber) ==
    {m.id : m \in {x \in Range(s.members) :
        /\ ILike(x.name, <<"%">> \o FStr(member_data.first_name) \o <<"%">>
                            \o FStr(member_data.last_name) \o <<"%">>)
        /\ x.chamber = chamber}}

\* _save_propublica_member: [session, nextId, outcome]
SavePropublicaMember(s, ids, member_data, chamber, existing_member) ==
    LET keep == [session |-> s, nextId |-> ids]
    IN  IF ~member_data.dict THEN keep @@ [outcome |-> "raised"]
        ELSE IF existing_member # 0 THEN keep @@ [outcome |-> "skipped"]
        ELSE AddMember(s, ids,
                       FStr(member_data.first_name) \o <<" ">>
                           \o FStr(member_data.last_name),
                       chamber, Get(member_data.state, <<>>),
                       Get(member_data.party, <<>>), "propublica")
                 @@ [outcome |-> "stored"]

PropublicaMember(member_data) ==
    /\ pc = "propublica_records"
    /\ stage \in {1, 2}
    /\ idx <= batch
    /\ \E existing_member \in
           FirstOf(PropublicaMatches(session, member_data, StageChamber(stage))) :
           LET r == SavePropublicaMember(session, nextId, member_data,
                                         StageChamber(stage), existing_member)
           IN  /\ session' = r.session
               /\ nextId' = r.nextId
               /\ outcomes' = Append(outcomes, r.outcome)
    /\ idx' = idx + 1
    /\ nrec' = nrec + 1
    /\ response' = NoResponse
    /\ UNCHANGED <<database, pc, key, autoflush, concurrent, files, batch, stage, scrapeVars, runs,
                   nfault, trace, commits>>

RawCommittee(id, name, subcommittee) ==
    [dict |-> TRUE, id |-> id, name |-> name, subcommittee |-> subcommittee]

CommitteeRow(id, name, code, chamber, subcommittee) ==
    [id |-> id, name |-> name, code |-> code, chamber |-> chamber,
     subcommittee |-> subcommittee, parent_committee_id |-> 0,
     by |-> "propublica", run |-> runs]

\* the Committees the query of lines 376-378 looks through.  A Committee is
\* added without a flush (line 390): a Session with autoflush flushes it
\* before the next query, a Session without sees the rows of the table only,
\* and no flush falls between two Committees of a run.
QueriedCommittees(s, db, flush) ==
    IF flush THEN Range(s.committees) ELSE Range(db.committees)

\* Committee.code is unique=True: the flush of two rows with one code fails
RepeatedCode(s) ==
    \E c, d \in Range(s.committees) : c.id # d.id /\ c.code = d.code

\* _save_propublica_committee: [session, nextId, outcome]
SavePropublicaCommittee(s, ids, committee_data, chamber, queried) ==
    LET keep == [session |-> s, nextId |-> ids]
        code == Get(committee_data.id, <<>>)
        existing_committee == \E c \in queried : c.code = code
    IN  IF ~committee_data.dict THEN keep @@ [outcome |-> "raised"]
        ELSE IF existing_committee THEN keep @@ [outcome |-> "skipped"]
        ELSE [session |-> [s EXCEPT !.committees =
                              Append(@, CommitteeRow(ids.committees,
                                                     Get(committee_data.name, <<>>),
                                                     code, chamber,
                                                     committee_data.subcommittee))],
              nextId  |-> [ids EXCEPT !.committees = @ + 1],
              outcome |-> "stored"]

PropublicaCommittee(committee_data) ==
    /\ pc = "propublica_records"
    /\ stage \in {3, 4}
    /\ idx <= batch
    /\ LET r == SavePropublicaCommittee(session, nextId, committee_data,
                                        StageChamber(stage),
                                        QueriedCommittees(session, database, autoflush))
       IN  /\ session' = r.session
           /\ nextId' = r.nextId
           /\ outcomes' = Append(outcomes, r.outcome)
    /\ idx' = idx + 1
    /\ nrec' = nrec + 1
    /\ response' = NoResponse
    /\ UNCHANGED <<database, pc, key, autoflush, concurrent, files, batch, stage, scrapeVars, runs,
                   nfault, trace, commits>>

\* the entries of one response are exhausted
PropublicaListDone ==
    /\ pc = "propublica_records"
    /\ idx > batch
    /\ IF stage < 4
       THEN /\ stage' = stage + 1
            /\ pc' = "propublica"
            /\ trace' = trace
       ELSE /\ stage' = stage
            /\ pc' = "scrape_house"
            /\ trace' = trace \o <<"propublica_end", "scrape">>
    /\ batch' = 0
    /\ idx' = 1
    /\ outcomes' = <<>>
    /\ response' = NoResponse
    /\ UNCHANGED <<storeVars, key, autoflush, concurrent, files, scrapeVars, runs, nrec, nfault,
                   commits>>

(***************************************************************************)
(* RealDataScraper: the House disclosure pages.                            *)
(***************************************************************************)
\* disclosure_links[:10] (line 41)
LinkCap == 10

Min(a, b) == IF a < b THEN a ELSE b

IsUpper(c) == c \in Range(UpperCase)

IsWord(c) == c \in Range(UpperCase) \cup Range(LowerCase) \cup Range(Digits) \cup {"_"}

AllUpper(s, i, j) == \A k \in i..j : IsUpper(s[k])

\* the matches of \b([A-Z]{1,5})\b in s, as <<first, last>> positions
WordMatches(s) ==
    {p \in (1..Len(s)) \X (1..Len(s)) :
        /\ p[1] <= p[2] /\ p[2] - p[1] < 5
        /\ AllUpper(s, p[1], p[2])
        /\ (p[1] = 1 \/ ~IsWord(s[p[1] - 1]))
        /\ (p[2] = Len(s) \/ ~IsWord(s[p[2] + 1]))}

\* the matches of \(([A-Z]{1,5})\) in s, as positions of the group
ParenMatches(s) ==
    {p \in (1..Len(s)) \X (1..Len(s)) :
        /\ p[1] <= p[2] /\ p[2] - p[1] < 5
        /\ AllUpper(s, p[1], p[2])
        /\ p[1] > 1 /\ s[p[1] - 1] = "("
        /\ p[2] < Len(s) /\ s[p[2] + 1] = ")"}

\* re.search: the leftmost match
Leftmost(s, matches) ==
    LET p == CHOOSE q \in matches : \A r \in matches : q[1] <= r[1]
    IN  SubSeq(s, p[1], p[2])

FalsePositives ==
    {<<"T", "H", "E">>, <<"A", "N", "D">>, <<"O", "R">>, <<"F", "O", "R">>,
     <<"I", "N", "C">>, <<"C", "O", "R", "P">>}

\* _extract_ticker: the ticker, or Null for None
ExtractTicker(asset_text) ==
    LET w == WordMatches(asset_text)
        q == ParenMatches(asset_text)
    IN  IF w # {} /\ Leftmost(asset_text, w) \notin FalsePositives
        THEN Leftmost(asset_text, w)
        ELSE IF q # {} /\ Leftmost(asset_text, q) \notin FalsePositives
        THEN Leftmost(asset_text, q)
        ELSE Null

\* every matching link of the index page is followed
AllLinks(n) == n

\* disclosure_links[:10] (line 41): the links that are followed
FirstLinks(n) == Min(n, LinkCap)

\* the request of line 34: n links match on a 200 response that parses
ScrapeHouseDisclosures(out, n) ==
    /\ pc = "scrape_house"
    /\ CountFault(out)
    /\ IF out = "ok"
       THEN /\ links' = FirstLinks(n)
            /\ pc' = "scrape_links"
            /\ trace' = trace
       ELSE /\ links' = 0
            /\ pc' = "scrape_senate"
            /\ trace' = trace \o <<"scrape_fault", "senate">>
    /\ response' = NoResponse
    /\ UNCHANGED <<storeVars, key, autoflush, concurrent, feedVars, stage, member_name, fetched, runs,
                   nrec, commits>>

\* _process_house_disclosure: the request of line 53 and _extract_member_name.
\* name is the text of the first heading found, Null when there is none.
ProcessHouseDisclosure(out, name, n) ==
    /\ pc = "scrape_links"
    /\ links > 0
    /\ CountFault(out)
    /\ nrec + nfault + n <= MaxEvents
    /\ fetched' = fetched + 1
    /\ IF out = "ok" /\ name # Null /\ Len(Strip(name)) > 3
       THEN /\ member_name' = Strip(name)
            /\ batch' = n
            /\ idx' = 1
            /\ outcomes' = <<>>
            /\ pc' = "scrape_rows"
            /\ links' = links
       ELSE /\ links' = links - 1
            /\ UNCHANGED <<member_name, batch, idx, outcomes, pc>>
    /\ response' = NoResponse
    /\ UNCHANGED <<storeVars, key, autoflush, concurrent, files, stage, runs, nrec, trace, commits>>

\* the links are exhausted
HouseDisclosuresDone ==
    /\ pc = "scrape_links"
    /\ links = 0
    /\ pc' = "scrape_senate"
    /\ trace' = trace \o <<"senate">>
    /\ response' = NoResponse
    /\ UNCHANGED <<storeVars, key, autoflush, concurrent, feedVars, stage, scrapeVars, runs, nrec,
                   nfault, commits>>

\* the cells of a table row: its length and the text of the first three
RawRow(ncells, asset, transaction_type, amount) ==
    [ncells |-> ncells, asset |-> asset, transaction_type |-> transaction_type,
     amount |-> amount]

\* the members the query of lines 160-162 matches, as ids
HouseMatches(s, name) ==
    {m.id : m \in {x \in Range(s.members) : ILikeContains(x.name, name)}}

\* _save_trade: [session, nextId]
SaveTrade(s, ids, name, ticker, transaction_type, amount, member) ==
    LET keep    == [session |-> s, nextId |-> ids]
        created == AddMember(s, ids, name, House, Unknown, Unknown, "scrape")
        found   == IF member = 0 THEN created ELSE keep
        mid     == IF member = 0 THEN ids.members ELSE member
        parsed  == ScraperParseAmount(amount)
    IN  AddTrade(found.session, found.nextId, mid, ticker, transaction_type,
                 Today - 30, parsed.min, parsed.max,
                 <<"S", "c", "r", "a", "p", "e", "d", " ", "f", "r", "o", "m", " ",
                   "H", "o", "u", "s", "e", " ", "d", "i", "s", "c", "l", "o", "s",
                   "u", "r", "e">>,
                 HouseClerkWebsite, <<amount>>)

\* _extract_trade_from_row on one row of a table (lines 100-103)
ExtractTradeFromRow(s, ids, name, cells, member) ==
    LET keep   == [session |-> s, nextId |-> ids]
        ticker == ExtractTicker(Strip(cells.asset))
    IN  IF cells.ncells < 3 \/ ticker = Null THEN keep @@ [outcome |-> "skipped"]
        ELSE SaveTrade(s, ids, name, ticker, Strip(cells.transaction_type),
                       Strip(cells.amount), member) @@ [outcome |-> "stored"]

HouseRow(cells) ==
    /\ pc = "scrape_rows"
    /\ ~RecordsExhausted
    /\ \E member \in FirstOf(HouseMatches(session, member_name)) :
           LET r == ExtractTradeFromRow(session, nextId, member_name, cells, member)
           IN  /\ session' = r.session
               /\ nextId' = r.nextId
               /\ outcomes' = Append(outcomes, r.outcome)
    /\ idx' = idx + 1
    /\ nrec' = nrec + 1
    /\ response' = NoResponse
    /\ UNCHANGED <<database, pc, key, autoflush, concurrent, files, batch, stage, scrapeVars, runs,
                   nfault, trace, commits>>

\* the rows of the page are exhausted
HousePageDone ==
    /\ pc = "scrape_rows"
    /\ RecordsExhausted
    /\ pc' = "scrape_links"
    /\ links' = links - 1
    /\ member_name' = <<>>
    /\ batch' = 0
    /\ idx' = 1
    /\ outcomes' = <<>>
    /\ response' = NoResponse
    /\ UNCHANGED <<storeVars, key, autoflush, concurrent, files, stage, fetched, runs, nrec, nfault,
                   trace, commits>>

(***************************************************************************)
(* RealDataScraper: the Senate disclosure step, and the commits.           *)
(***************************************************************************)
\* range(20) (line 257)
SampleCount == 20

senate_tickers ==
    <<<<"A", "A", "P", "L">>, <<"M", "S", "F", "T">>, <<"G", "O", "O", "G", "L">>,
      <<"A", "M", "Z", "N">>, <<"T", "S", "L", "A">>, <<"N", "V", "D", "A">>,
      <<"M", "E", "T", "A">>, <<"J", "P", "M">>, <<"B", "A", "C">>,
      <<"W", "F", "C">>>>

BuySell == <<<<"B", "u", "y">>, <<"S", "e", "l", "l">>>>

\* the trade of pass i of the loop of line 257, with ids from first on
SampleTrade(senate_members, i, first) ==
    LET member == senate_members[(i % Len(senate_members)) + 1]
        ticker == senate_tickers[(i % Len(senate_tickers)) + 1]
        transaction_type == BuySell[(i % 2) + 1]
    IN  TradeRow(first + i, member.id, ticker, transaction_type,
                 Today - i * 10, Num(5000 + i * 1000), Num(10000 + i * 2000),
                 <<"S", "e", "n", "a", "t", "e", " ", "d", "i", "s", "c", "l", "o",
                   "s", "u", "r", "e", " ", "-", " ">>
                     \o transaction_type \o <<" ">> \o ticker,
                 SenateFinancialDisclosures, <<>>)

\* the rows of a sequence whose id is in keep, in order
RECURSIVE SelectSeq2(_, _)
SelectSeq2(s, keep) ==
    IF s = <<>> THEN <<>>
    ELSE IF Head(s).id \in keep THEN <<Head(s)>> \o SelectSeq2(Tail(s), keep)
    ELSE SelectSeq2(Tail(s), keep)

IdsOf(rows) == {r.id : r \in rows}

IsSenator(m) == m.chamber = Senate

\* db.query(Member).filter(Member.chamber == "Senate").all(), in the order
\* of the table
SenateMembers(s) ==
    SelectSeq2(s.members, IdsOf({m \in Range(s.members) : IsSenator(m)}))

\* _add_senate_sample_data without its commit: the session it leaves
AddSenateSampleData(s, ids) ==
    LET senate_members == SenateMembers(s)
    IN  [session |-> [s EXCEPT !.trades =
                         @ \o [i \in 1..SampleCount |->
                                   SampleTrade(senate_members, i - 1, ids.trades)]],
         nextId  |-> [ids EXCEPT !.trades = @ + SampleCount]]

\* scrape_senate_disclosures: the request of line 231 and, on a 200
\* response, _add_senate_sample_data, which commits, or rolls back when
\* anything in it raises ("sample_raise"), its commit over a repeated
\* committee code included.
ScrapeSenateDisclosures(out) ==
    /\ pc = "scrape_senate"
    /\ CountFault(out)
    /\ IF out = "ok" /\ SenateMembers(session) # <<>> /\ ~RepeatedCode(session)
       THEN LET r == AddSenateSampleData(session, nextId)
            IN  /\ session' = r.session
                /\ nextId' = r.nextId
                /\ database' = r.session
                /\ commits' = commits + 1
       ELSE IF out = "sample_raise" \/ (out = "ok" /\ SenateMembers(session) # <<>>)
       THEN /\ session' = database
            /\ UNCHANGED <<database, nextId, commits>>
       ELSE UNCHANGED <<storeVars, commits>>
    /\ pc' = "scrape_commit"
    /\ trace' = trace \o (IF out \in {"status", "raise"} THEN <<"senate_fault">> ELSE <<>>)
    /\ response' = NoResponse
    /\ UNCHANGED <<key, autoflush, concurrent, feedVars, stage, scrapeVars, runs, nrec>>

\* a commit raises when the database fails it (out) or when what it
\* flushes breaks the unique constraint of Committee.code
CommitRaises(out, s) == out # "ok" \/ RepeatedCode(s)

\* db.commit(): the database after it.  A commit that raises persists
\* nothing, and the Session has rolled its transaction back.
Commit(out, s, db) == IF CommitRaises(out, s) THEN db ELSE s

\* db.commit() of scrape_real_data (line 296); when it raises, the except
\* of collect_congress_data (line 415) catches the exception
ScrapeRealDataCommit(out) ==
    /\ pc = "scrape_commit"
    /\ CountFault(out)
    /\ database' = Commit(out, session, database)
    /\ session' = database'
    /\ commits' = commits + 1
    /\ pc' = "commit"
    /\ trace' = trace \o <<"scrape_end">>
    /\ response' = NoResponse
    /\ UNCHANGED <<nextId, key, autoflush, concurrent, feedVars, stage, scrapeVars, runs, nrec>>

\* get_db of database.py: the Session of a request is closed when the
\* request is over, and what it had not committed is rolled back
CloseSession(s, db) == db

\* the messages of the exceptions a commit raises
CommitErrors == {"database is locked", "server closed the connection"}

\* trigger_data_collection: the answer when the run returned
Completed(e) ==
    [kind |-> "collect", status |-> 200,
     body |-> <<"Data collection completed successfully">>]

\* the exception swallowed: the answer of a run that returned
Swallowed(e) == Completed(e)

\* trigger_data_collection: the answer when an exception escaped the run
Failed(e) ==
    [kind |-> "collect", status |-> 500,
     body |-> <<"Data collection failed: ", e>>]

\* db.commit() of collect_congress_data (line 419) and the answer of
\* trigger_data_collection: the only statement of the run an exception can
\* escape from.  The run is over, and what it kept in local variables is
\* gone.
CollectCongressDataCommit(out, e) ==
    /\ pc = "commit"
    /\ CountFault(out)
    /\ database' = Commit(out, session, database)
    /\ session' = CloseSession(session, database')
    /\ pc' = "idle"
    /\ key' = FALSE
    /\ UNCHANGED <<autoflush, concurrent>>
    /\ stage' = 1
    /\ trace' = <<>>
    /\ commits' = 0
    /\ fetched' = 0
    /\ response' = IF CommitRaises(out, session) THEN Failed(e) ELSE Completed(e)
    /\ UNCHANGED <<nextId, feedVars, links, member_name, runs, nrec>>

(***************************************************************************)
(* The maintenance scripts.  Each opens a Session of its own, deletes and  *)
(* commits, or rolls back when anything raises.  ci: whether LIKE of the   *)
(* database ignores case.                                                  *)
(***************************************************************************)
sample_sources ==
    {"Sample Data", "Realistic Trading Data", "Senate Sample Data",
     "House Sample Data"}

suspicious_sources ==
    {"Senate Financial Disclosures", "House Clerk Website", "Sample Data",
     "Realistic Trading Data"}

\* Trade.description.like("%word%"); a NULL description matches nothing
DescriptionLike(t, word, ci) ==
    t.description # Null /\ SqlLike(t.description, <<"%">> \o word \o <<"%">>, ci)

\* every trade, whatever its source
AnySource(rows, sources) == {r.id : r \in Range(rows)}

\* the trades with a source of the list (lines 33-35; 45-46)
BySource(rows, sources) == IdsOf({t \in Range(rows) : t.source \in sources})

\* the trades with a description like one of the patterns (lines 43-47; 53-58)
ByDescription(rows, words, ci) ==
    IdsOf({t \in Range(rows) : \E word \in words : DescriptionLike(t, word, ci)})

\* Trade.transaction_date > current_time (lines 27-29)
future_trades(rows) == IdsOf({t \in Range(rows) : t.transaction_date > Today})

\* db.delete of each row of ids
Delete(rows, ids) == SelectSeq2(rows, {r.id : r \in Range(rows)} \ ids)

sample_descriptions ==
    {<<"s", "a", "m", "p", "l", "e">>,
     <<"r", "e", "a", "l", "i", "s", "t", "i", "c">>,
     <<"g", "e", "n", "e", "r", "a", "t", "e", "d">>}

fake_descriptions ==
    {<<"S", "e", "n", "a", "t", "e", " ", "d", "i", "s", "c", "l", "o", "s", "u",
       "r", "e">>,
     <<"S", "c", "r", "a", "p", "e", "d", " ", "f", "r", "o", "m", " ", "H", "o",
       "u", "s", "e">>,
     <<"s", "a", "m", "p", "l", "e">>,
     <<"r", "e", "a", "l", "i", "s", "t", "i", "c">>}

\* what a script answers: the trades it found, whether it committed
Cleaned(script, before, committed) ==
    [kind |-> "clean", script |-> script, before |-> before,
     committed |-> committed]

Maintain(script, doomed, out) ==
    /\ pc = "idle"
    /\ LET after == [database EXCEPT !.trades = Delete(@, doomed)]
       IN  IF out = "ok"
           THEN /\ database' = after
                /\ session' = after
           ELSE UNCHANGED <<database, session>>
    /\ response' = Cleaned(script, database.trades, out = "ok")
    /\ UNCHANGED <<nextId, pc, key, autoflush, concurrent, feedVars, stage, scrapeVars, runs, nrec,
                   nfault, trace, commits>>

\* clean_sample_data
clean_sample_data(ci, out) ==
    Maintain("clean_sample_data",
             BySource(database.trades, sample_sources)
                 \cup ByDescription(database.trades, sample_descriptions, ci),
             out)

\* clean_future_and_suspicious_data
clean_future_and_suspicious_data(ci, out) ==
    Maintain("clean_future_and_suspicious_data",
             future_trades(database.trades)
                 \cup BySource(database.trades, suspicious_sources)
                 \cup ByDescription(database.trades, fake_descriptions, ci),
             out)

(***************************************************************************)
(* The serving path: the listing endpoints of routers/trades.py,           *)
(* routers/members.py and routers/committees.py.  An answer carries the    *)
(* status, the ids of the rows returned, and whether the handler queried   *)
(* the store.                                                              *)
(***************************************************************************)
\* le= of the Query(...) declarations of limit
LimitCeiling == 1000

RecentCeiling == 500

ShortCeiling == 100

\* le= of days in get_recent_trades
DaysCeiling == 365

Upper(c) ==
    IF c \in Range(LowerCase)
    THEN UpperCase[CHOOSE i \in 1..26 : LowerCase[i] = c]
    ELSE c

\* str.lower(), str.upper()
LowerStr(s) == [i \in 1..Len(s) |-> Lower(s[i])]

UpperStr(s) == [i \in 1..Len(s) |-> Upper(s[i])]

IsLetter(c) == c \in Range(UpperCase) \cup Range(LowerCase)

\* str.title(): a letter is upper case after a non-letter, lower case otherwise
Title(s) ==
    [i \in 1..Len(s) |->
        IF i = 1 \/ ~IsLetter(s[i - 1]) THEN Upper(s[i]) ELSE Lower(s[i])]

Alphabet == <<" ">> \o Digits \o UpperCase \o LowerCase

Code(c) == CHOOSE i \in 1..Len(Alphabet) : Alphabet[i] = c

\* a <= b in the binary collation of strings
RECURSIVE StrLE(_, _)
StrLE(a, b) ==
    IF a = <<>> THEN TRUE
    ELSE IF b = <<>> THEN FALSE
    ELSE IF Head(a) # Head(b) THEN Code(Head(a)) < Code(Head(b))
    ELSE StrLE(Tail(a), Tail(b))

Trades == Range(database.trades)

Members == Range(database.members)

Committees == Range(database.committees)

Memberships == Range(database.memberships)

\* .join(Member): the trades whose member exists
Joined == {t \in Trades : \E m \in Members : m.id = t.member_id}

MemberOf(t) == CHOOSE m \in Members : m.id = t.member_id

\* order_by(Trade.transaction_date.desc())
Recent(a, b) == a.transaction_date >= b.transaction_date

\* order_by(Member.name), order_by(Committee.name)
ByName(a, b) == StrLE(a.name, b.name)

TradeCount(m) == Cardinality({t \in Trades : t.member_id = m.id})

\* order_by(func.count(Trade.id).desc())
MostTrades(a, b) == TradeCount(a) >= TradeCount(b)

\* order_by(CommitteeMembership.start_date.desc())
LatestStart(a, b) == a.start_date >= b.start_date

\* a may come before b under the ORDER BY clause named by order
Before(order, a, b) ==
    CASE order = "transaction_date desc" -> Recent(a, b)
      [] order = "name" -> ByName(a, b)
      [] order = "count desc" -> MostTrades(a, b)
      [] order = "trade_count desc" -> a.trade_count >= b.trade_count
      [] order = "start_date desc" -> LatestStart(a, b)

\* the orders ORDER BY may return the rows in: sorted, ties in any order
OrderBy(rows, order) ==
    LET n == Cardinality(rows)
    IN  {f \in [1..n -> rows] :
            /\ \A i, j \in 1..n : i # j => f[i] # f[j]
            /\ \A i \in 1..n - 1 : Before(order, f[i], f[i + 1])}

\* the rows without offset and limit
Unpaged(seq, skip, limit) == seq

\* .offset(skip).limit(limit)
Page(seq, skip, limit) ==
    IF skip >= Len(seq) THEN <<>>
    ELSE SubSeq(seq, skip + 1, Min(Len(seq), skip + limit))

\* the entities of the rows, each once (the Query returns an entity once)
RECURSIVE Uniq(_)
Uniq(ids) ==
    IF ids = <<>> THEN <<>>
    ELSE LET rest == Uniq(SubSeq(ids, 1, Len(ids) - 1))
         IN  IF ids[Len(ids)] \in Range(rest) THEN rest
             ELSE Append(rest, ids[Len(ids)])

Answer(endpoint, arg, skip, limit, status, items, queried) ==
    /\ pc = "idle"
    /\ response' = [kind |-> "api", endpoint |-> endpoint, arg |-> arg,
                    skip |-> skip, limit |-> limit, status |-> status,
                    items |-> items, queried |-> queried]
    /\ UNCHANGED <<storeVars, pc, key, autoflush, concurrent, feedVars, stage, scrapeVars, runs, nrec,
                   nfault, trace, commits>>

\* A listing handler.  FastAPI validates skip and limit before the handler
\* runs (422); early is the status the handler raises before its listing
\* query, 0 for none; order names the ORDER BY clause of the query.
Listing(endpoint, arg, skip, limit, ceiling, early, rows, order) ==
    IF skip < 0 \/ limit < 1 \/ limit > ceiling
    THEN Answer(endpoint, arg, skip, limit, 422, <<>>, FALSE)
    ELSE IF early # 0
    THEN Answer(endpoint, arg, skip, limit, early, <<>>, early = 404)
    ELSE \E ordered \in OrderBy(rows, order) :
             LET page == Page(ordered, skip, limit)
             IN  Answer(endpoint, arg, skip, limit, 200,
                        Uniq([i \in 1..Len(page) |-> page[i].id]), TRUE)

\* the optional query parameters of get_trades: Null, 0 and None for absent
TradeFilter(member_id, chamber, party, ticker, transaction_type, start_date, end_date, min_amount, max_amount) ==
    [member_id |-> member_id, chamber |-> chamber, party |-> party,
     ticker |-> ticker, transaction_type |-> transaction_type,
     start_date |-> start_date, end_date |-> end_date,
     min_amount |-> min_amount, max_amount |-> max_amount]

\* Python's truth of an Optional[float]
FloatTruthy(x) == x # None /\ x # Num(0)

\* column >= x and column <= x; a NULL column satisfies neither
AtLeast(column, x) == column # None /\ FloatLE(x, column)

AtMost(column, x) == column # None /\ FloatLE(column, x)

\* the filters of lines 36-63
Passes(t, f) ==
    /\ f.member_id # 0 => t.member_id = f.member_id
    /\ Truthy(f.chamber) => MemberOf(t).chamber = f.chamber
    /\ Truthy(f.party) => MemberOf(t).party = f.party
    /\ Truthy(f.ticker) => ILikeContains(t.ticker, f.ticker)
    /\ Truthy(f.transaction_type) => t.transaction_type = f.transaction_type
    /\ f.start_date # 0 => t.transaction_date >= f.start_date
    /\ f.end_date # 0 => t.transaction_date <= f.end_date
    /\ FloatTruthy(f.min_amount) =>
           AtLeast(t.amount_exact, f.min_amount) \/ AtLeast(t.amount_min, f.min_amount)
    /\ FloatTruthy(f.max_amount) =>
           AtMost(t.amount_exact, f.max_amount) \/ AtMost(t.amount_max, f.max_amount)

get_trades(skip, limit, f) ==
    Listing("get_trades", f, skip, limit, LimitCeiling, 0,
            {t \in Joined : Passes(t, f)}, "transaction_date desc")

\* days is validated like limit; the handler takes no skip
get_recent_trades(days, limit) ==
    IF days < 1 \/ days > DaysCeiling
    THEN Answer("get_recent_trades", <<>>, 0, limit, 422, <<>>, FALSE)
    ELSE Listing("get_recent_trades", <<>>, 0, limit, RecentCeiling, 0,
                 {t \in Joined : t.transaction_date >= Today - days}, "transaction_date desc")

get_trades_by_member(member_id, skip, limit) ==
    Listing("get_trades_by_member", member_id, skip, limit, LimitCeiling, 0,
            {t \in Trades : t.member_id = member_id}, "transaction_date desc")

get_trades_by_ticker(ticker, skip, limit) ==
    Listing("get_trades_by_ticker", ticker, skip, limit, LimitCeiling, 0,
            {t \in Joined : ILikeContains(t.ticker, UpperStr(ticker))}, "transaction_date desc")

\* has_trades: <<>> for absent, else <<TRUE>> or <<FALSE>>
get_members(skip, limit, chamber, party, state, has_trades) ==
    Listing("get_members", <<>>, skip, limit, LimitCeiling, 0,
            {m \in Members :
                /\ Truthy(chamber) => m.chamber = chamber
                /\ Truthy(party) => m.party = party
                /\ Truthy(state) => m.state = state
                /\ has_trades # <<>> =>
                       (has_trades[1] <=> \E t \in Trades : t.member_id = m.id)},
            "name")

house == <<"h", "o", "u", "s", "e">>

senate == <<"s", "e", "n", "a", "t", "e">>

joint == <<"j", "o", "i", "n", "t">>

\* chamber.lower() in ['house', 'senate', 'joint'] (committees.py line 47)
CommitteeChamber(chamber) == LowerStr(chamber) \in {house, senate, joint}

\* every chamber text taken for a chamber
AnyChamber(chamber) == TRUE

\* chamber.lower() in ['house', 'senate'] (members.py line 57)
MemberChamber(chamber) == LowerStr(chamber) \in {house, senate}

get_members_by_chamber(chamber, skip, limit) ==
    Listing("get_members_by_chamber", chamber, skip, limit, LimitCeiling,
            IF MemberChamber(chamber) THEN 0 ELSE 400,
            {m \in Members : m.chamber = Title(chamber)}, "name")

get_members_by_state(state, skip, limit) ==
    Listing("get_members_by_state", state, skip, limit, LimitCeiling, 0,
            {m \in Members : m.state = UpperStr(state)}, "name")

get_members_by_party(party, skip, limit) ==
    Listing("get_members_by_party", party, skip, limit, LimitCeiling, 0,
            {m \in Members : m.party = party}, "name")

get_most_active_traders(limit) ==
    Listing("get_most_active_traders", <<>>, 0, limit, ShortCeiling, 0,
            {m \in Members : TradeCount(m) > 0}, "count desc")

search_members(name, skip, limit) ==
    Listing("search_members", name, skip, limit, ShortCeiling, 0,
            {m \in Members : ILikeContains(m.name, name)}, "name")

\* subcommittee: <<>> for absent, else <<TRUE>> or <<FALSE>>
get_committees(skip, limit, chamber, subcommittee) ==
    Listing("get_committees", <<>>, skip, limit, LimitCeiling, 0,
            {c \in Committees :
                /\ Truthy(chamber) => c.chamber = chamber
                /\ subcommittee # <<>> => c.subcommittee = subcommittee[1]},
            "name")

get_committees_by_chamber(chamber, skip, limit) ==
    Listing("get_committees_by_chamber", chamber, skip, limit, LimitCeiling,
            IF CommitteeChamber(chamber) THEN 0 ELSE 400,
            {c \in Committees : c.chamber = Title(chamber)}, "name")

get_main_committees(skip, limit, chamber) ==
    Listing("get_main_committees", <<>>, skip, limit, LimitCeiling, 0,
            {c \in Committees :
                ~c.subcommittee /\ (Truthy(chamber) => c.chamber = chamber)},
            "name")

\* parent_committee_id: 0 for absent (and 0 itself is not applied, line 87)
get_subcommittees(skip, limit, parent_committee_id) ==
    Listing("get_subcommittees", <<>>, skip, limit, LimitCeiling, 0,
            {c \in Committees :
                /\ c.subcommittee
                /\ parent_committee_id # 0 =>
                       c.parent_committee_id = parent_committee_id},
            "name")

MembershipRow(id, member_id, committee_id, start_date) ==
    [id |-> id, member_id |-> member_id, committee_id |-> committee_id,
     start_date |-> start_date]

\* Member (or Committee) joined with CommitteeMembership on the column
\* side: one row for each membership of an entity, with the entity's id and
\* name
JoinedMemberships(rows, side) ==
    {[id |-> r.id, name |-> r.name, via |-> ms] :
        <<r, ms>> \in {p \in rows \X Memberships : p[2][side] = p[1].id}}

NotFound(rows, id) == IF \E r \in rows : r.id = id THEN 0 ELSE 404

get_committee_members(committee_id, skip, limit) ==
    Listing("get_committee_members", committee_id, skip, limit, LimitCeiling,
            NotFound(Committees, committee_id),
            {j \in JoinedMemberships(Members, "member_id") :
                j.via.committee_id = committee_id},
            "name")

get_committee_memberships(committee_id, skip, limit) ==
    Listing("get_committee_memberships", committee_id, skip, limit, LimitCeiling,
            NotFound(Committees, committee_id),
            {ms \in Memberships : ms.committee_id = committee_id},
            "start_date desc")

get_member_committees(member_id, skip, limit) ==
    Listing("get_member_committees", member_id, skip, limit, LimitCeiling,
            NotFound(Members, member_id),
            {j \in JoinedMemberships(Committees, "committee_id") :
                j.via.member_id = member_id},
            "name")

(***************************************************************************)
(* get_trading_stats (GET /api/trades/stats).                              *)
(***************************************************************************)
TopCeiling == 10

RecentDays == 30

\* a count read off the id sequence: the next free id, 1 over no rows
NextFreeId(rows) ==
    IF rows = {} THEN 1
    ELSE 1 + CHOOSE n \in {r.id : r \in rows} : \A r \in rows : r.id <= n

\* db.query(...).count()
CountRows(rows) == Cardinality(rows)

\* group_by(Trade.ticker) with func.count(Trade.id)
TickerGroups ==
    {[ticker |-> k, trade_count |-> CountRows({t \in Trades : t.ticker = k})] :
        k \in {t.ticker : t \in Trades}}

\* Member joined with Trade, grouped by a column of Member, as a dict
GroupedByMember(column) ==
    [v \in {MemberOf(t)[column] : t \in Joined} |->
        CountRows({t \in Joined : MemberOf(t)[column] = v})]

get_trading_stats ==
    /\ pc = "idle"
    /\ \E top_stocks \in {Page(o, 0, TopCeiling) :
                             o \in OrderBy(TickerGroups, "trade_count desc")} :
           response' =
               [kind |-> "stats", status |-> 200,
                total_trades |-> CountRows(Trades),
                total_members |-> CountRows(Members),
                total_committees |-> 0,
                recent_trades_count |->
                    CountRows({t \in Trades : t.transaction_date >= Today - RecentDays}),
                top_traded_stocks |-> top_stocks,
                trades_by_chamber |-> GroupedByMember("chamber"),
                trades_by_party |-> GroupedByMember("party")]
    /\ UNCHANGED <<storeVars, pc, key, autoflush, concurrent, feedVars, stage, scrapeVars, runs, nrec,
                   nfault, trace, commits>>

(***************************************************************************)
(* What the sources hold in the collection specification.                  *)
(***************************************************************************)
Al == <<"A", "l">>

Alan == <<"A", "l", "a", "n">>

NY == <<"N", "Y">>

AAPL == <<"A", "A", "P", "L">>

Buy == <<"B", "u", "y">>

Jan15 == <<"2", "0", "2", "5", "-", "0", "1", "-", "1", "5">>

Jan15Z == Jan15 \o <<"T", "0", "0", ":", "0", "0", ":", "0", "0", "Z">>

Feb30 == <<"2", "0", "2", "5", "-", "0", "2", "-", "3", "0">>

FeedTrade(senator, state, transaction_date) ==
    RawTrade(senator, state, <<"D">>, AAPL, Buy, transaction_date,
             <<"1", "0", "0", "0">>, <<"5", "0", "0", "0">>, Missing, Missing)

Purchase == <<"P", "u", "r", "c", "h", "a", "s", "e">>

\* records with a good date (one of them of the kind the feed calls
\* Purchase), with a date that is no date, without a date and with a null
\* state, without a senator, and one that is no JSON object
FeedRecords ==
    {FeedTrade(Al, NY, Jan15), [FeedTrade(Alan, NY, Jan15Z) EXCEPT !.type = Purchase],
     FeedTrade(Al, NY, Feb30), FeedTrade(<<"a", "l">>, Null, Missing),
     FeedTrade(Missing, NY, Jan15), NotADict}

PropublicaMembers ==
    {RawMember(Al, <<"a", "n">>, NY, <<"D">>),
     [RawMember(Missing, Missing, Missing, Missing) EXCEPT !.dict = FALSE]}

PropublicaCommittees ==
    {RawCommittee(<<"H", "S", "A", "G">>, <<"A", "g", "r", "i">>, FALSE),
     [RawCommittee(Missing, Missing, FALSE) EXCEPT !.dict = FALSE]}

\* the heading of a detail page: none, one too short to be a name, names
PageNames == {Null, Al, Alan}

AppleAsset ==
    <<"A", "p", "p", "l", "e", " ", "I", "n", "c", " ", "(", "A", "A", "P", "L", ")">>

HouseRows ==
    {RawRow(3, AppleAsset, Buy, <<"$", "2", "5", "0", "0">>),
     RawRow(3, <<"T", "H", "E", " ", "I", "N", "C">>, Buy, <<"$", "2", "5", "0", "0">>),
     RawRow(2, AppleAsset, Buy, <<>>)}

\* links on the index page: none, one, more than the cap
LinkCounts == {0, 1, LinkCap + MaxExtraLinks}

(***************************************************************************)
(* The collection specification: runs of collect_congress_data.            *)
(***************************************************************************)
Collect(feed, outs) ==
    \/ \E out \in outs, n \in 0..MaxFiles :
           (Faulty(out) => n = 0) /\ CollectSenateStockData(out, n)
    \/ SenateFilesDone
    \/ SkipListingEntry
    \/ BadListingEntry
    \/ \E out \in outs, n \in 0..MaxEvents :
           (Faulty(out) => n = 0) /\ ProcessSenateFile(out, n)
    \/ \E trade_data \in feed : SenateRecord(trade_data)
    \/ SenateFileDone
    \/ CollectHouseTradingData

Propublica(outs) ==
    \/ \E out \in outs, n \in 0..MaxEvents :
           (Faulty(out) => n = 0) /\ PropublicaRequest(out, n)
    \/ \E member_data \in PropublicaMembers : PropublicaMember(member_data)
    \/ \E committee_data \in PropublicaCommittees : PropublicaCommittee(committee_data)
    \/ PropublicaListDone

Scrape(rows, outs) ==
    \/ \E out \in outs, n \in LinkCounts :
           (Faulty(out) => n = 0) /\ ScrapeHouseDisclosures(out, n)
    \/ \E out \in outs, name \in PageNames, n \in 0..MaxEvents :
           (Faulty(out) => (n = 0 /\ name = Null)) /\ ProcessHouseDisclosure(out, name, n)
    \/ HouseDisclosuresDone
    \/ \E cells \in rows : HouseRow(cells)
    \/ HousePageDone
    \/ \E out \in outs \cup {"sample_raise"} : ScrapeSenateDisclosures(out)
    \/ \E out \in outs \cap {"ok", "raise"} : ScrapeRealDataCommit(out)
    \/ \E out \in outs \cap {"ok", "raise"}, e \in CommitErrors :
           CollectCongressDataCommit(out, e)

Next ==
    \/ \E k \in BOOLEAN : StartRun(k)
    \/ Collect(FeedRecords, Outcomes)
    \/ Propublica(Outcomes)
    \/ Scrape(HouseRows, Outcomes)

Spec == Init /\ [][Next]_vars

(***************************************************************************)
(* The amount specification: runs without a key and without failing       *)
(* requests, over records that differ in their amount text only.           *)
(***************************************************************************)
AmountTexts ==
    {<<"1", ",", "0", "0", "0", "-", "5", ",", "0", "0", "0">>,
     <<"$", "2", "5", "0", "0">>, <<"a", "b", "c">>, <<>>,
     <<"5", "0", "0", "0", "-", "1", "0", "0", "0">>, <<"-", "5", "0", "0">>}

\* records with one text in both amount fields, and one whose fields are
\* supplied each for itself
AmountFeed ==
    {RawTrade(Al, NY, <<"D">>, AAPL, Buy, Jan15, text, text, Missing, Missing) :
        text \in AmountTexts}
    \cup {RawTrade(Al, NY, <<"D">>, AAPL, Buy, Jan15, <<"5", "0", "0", "0">>,
                   <<"1", "0", "0", "0">>, Missing, Missing)}

AmountRows == {RawRow(3, AppleAsset, Buy, text) : text \in AmountTexts}

NextAmount ==
    \/ StartRun(FALSE)
    \/ Collect(AmountFeed, {"ok"})
    \/ Scrape(AmountRows, {"ok"})

SpecAmount == Init /\ [][NextAmount]_vars

(***************************************************************************)
(* The serving specification: requests against stores the collectors and   *)
(* add_sample_data leave.                                                  *)
(***************************************************************************)
ApiMembers ==
    <<MemberRow(1, Al, Senate, NY, <<"D">>, "feed"),
      MemberRow(2, Alan, House, Unknown, Unknown, "scrape")>>

ApiTrades ==
    <<TradeRow(1, 1, AAPL, Buy, ToOrdinal(2025, 1, 15), Num(1000), Num(5000),
               <<>>, SenateStockWatcher, <<>>),
      TradeRow(2, 2, AAPL, Buy, Today - 30, Num(2500), Num(2500), <<>>,
               HouseClerkWebsite, <<>>),
      TradeRow(3, 1, <<"M", "S", "F", "T">>, <<"S", "e", "l", "l">>,
               ToOrdinal(2025, 1, 15), None, None, <<>>, SenateStockWatcher, <<>>),
      TradeRow(4, 2, <<"M", "S", "F", "T">>, Buy, Today - 30, Num(0), Num(0),
               <<>>, HouseClerkWebsite, <<>>)>>

ApiCommittees ==
    <<CommitteeRow(1, <<"A", "g", "r", "i">>, <<"H", "S", "A", "G">>, House, FALSE),
      CommitteeRow(2, <<"F", "i", "n">>, <<"S", "S", "F", "I">>, Senate, TRUE)>>

ApiMemberships ==
    <<MembershipRow(1, 1, 1, Today - 365), MembershipRow(2, 2, 1, Today - 365)>>

ApiStore(m, t, c, ms) ==
    [members |-> SubSeq(ApiMembers, 1, m), trades |-> SubSeq(ApiTrades, 1, t),
     committees |-> SubSeq(ApiCommittees, 1, c),
     memberships |-> SubSeq(ApiMemberships, 1, ms)]

ApiStores ==
    {ApiStore(0, 0, 0, 0), ApiStore(2, 0, 0, 0), ApiStore(2, 3, 0, 0),
     ApiStore(2, 3, 2, 2), ApiStore(2, 4, 2, 2)}

InitApi == Seeded(ApiStores)

Skips == {-1, 0, 1}

Limits ==
    {0, 1, 2, ShortCeiling, ShortCeiling + 1, RecentCeiling, RecentCeiling + 1,
     LimitCeiling, LimitCeiling + 1}

ChamberTexts == {senate, House, joint, <<"x", "y", "z">>, Null}

NoFilter == TradeFilter(0, Null, Null, Null, Null, 0, 0, None, None)

TradeFilters ==
    {NoFilter, [NoFilter EXCEPT !.member_id = 1],
     [NoFilter EXCEPT !.chamber = Senate], [NoFilter EXCEPT !.party = <<"D">>],
     [NoFilter EXCEPT !.ticker = <<"a", "a">>],
     [NoFilter EXCEPT !.transaction_type = Buy],
     [NoFilter EXCEPT !.start_date = Today - 30],
     [NoFilter EXCEPT !.end_date = Today - 31],
     [NoFilter EXCEPT !.min_amount = Num(2500)],
     [NoFilter EXCEPT !.max_amount = Num(2500)],
     [NoFilter EXCEPT !.min_amount = Num(0)]}

\* the listings read the store and leave it as it is: each request is taken
\* from a store at rest
NextApi ==
    /\ response = NoResponse
    /\ \/ \E skip \in Skips, limit \in Limits :
           \/ \E f \in TradeFilters : get_trades(skip, limit, f)
           \/ \E member_id \in 0..3 : get_trades_by_member(member_id, skip, limit)
           \/ \E ticker \in {<<"a", "a", "p", "l">>, <<"x">>} :
                  get_trades_by_ticker(ticker, skip, limit)
           \/ \E chamber \in {Null, Senate}, has_trades \in {<<>>, <<TRUE>>, <<FALSE>>} :
                  get_members(skip, limit, chamber, Null, Null, has_trades)
           \/ \E party \in {Null, <<"D">>}, state \in {Null, NY} :
                  get_members(skip, limit, Null, party, state, <<>>)
           \/ \E chamber \in ChamberTexts \ {Null} :
                  get_members_by_chamber(chamber, skip, limit)
           \/ \E state \in {<<"n", "y">>, <<"x">>} :
                  get_members_by_state(state, skip, limit)
           \/ \E party \in {<<"D">>, Unknown} : get_members_by_party(party, skip, limit)
           \/ \E name \in {<<"a", "l">>, Alan} : search_members(name, skip, limit)
           \/ \E chamber \in {Null, House}, subcommittee \in {<<>>, <<TRUE>>, <<FALSE>>} :
                  get_committees(skip, limit, chamber, subcommittee)
           \/ \E chamber \in ChamberTexts \ {Null} :
                  get_committees_by_chamber(chamber, skip, limit)
           \/ \E chamber \in {Null, House} : get_main_committees(skip, limit, chamber)
           \/ \E parent_committee_id \in 0..1 :
                  get_subcommittees(skip, limit, parent_committee_id)
           \/ \E committee_id \in 1..3 :
                  \/ get_committee_members(committee_id, skip, limit)
                  \/ get_committee_memberships(committee_id, skip, limit)
           \/ \E member_id \in 1..3 : get_member_committees(member_id, skip, limit)
       \/ get_trading_stats
       \/ \E limit \in Limits :
           \/ \E days \in {0, 30, DaysCeiling, DaysCeiling + 1} :
                  get_recent_trades(days, limit)
           \/ get_most_active_traders(limit)

SpecApi == InitApi /\ [][NextApi]_vars

(***************************************************************************)
(* The maintenance specification: the scripts over stores that hold trades *)
(* of the collectors and of add_sample_data.                               *)
(***************************************************************************)
CleanTrades ==
    <<TradeRow(1, 1, AAPL, Buy, ToOrdinal(2025, 1, 15), Num(1000), Num(5000),
               <<>>, SenateStockWatcher, <<>>),
      TradeRow(2, 1, AAPL, Buy, ToOrdinal(2025, 1, 15), None, None,
               <<"S", "a", "m", "p", "l", "e">>, SenateStockWatcher, <<>>),
      TradeRow(3, 1, AAPL, Buy, Today + 1, None, None, <<>>,
               SenateStockWatcher, <<>>),
      TradeRow(4, 2, AAPL, Buy, Today - 30, Num(2500), Num(2500),
               <<"S", "c", "r", "a", "p", "e", "d", " ", "f", "r", "o", "m", " ",
                 "H", "o", "u", "s", "e", " ", "d", "i", "s", "c", "l", "o", "s",
                 "u", "r", "e">>,
               HouseClerkWebsite, <<>>),
      SampleTrade(<<ApiMembers[1]>>, 0, 5),
      TradeRow(6, 1, AAPL, Buy, Today - 1, Num(1000), Num(2000),
               <<"P", "e", "r", "i", "o", "d", "i", "c", " ", "T", "r", "a", "n",
                 "s", "a", "c", "t", "i", "o", "n", " ", "R", "e", "p", "o", "r",
                 "t", " ", "-", " ", "B", "u", "y", " ", "A", "A", "P", "L">>,
               "Sample Data", <<>>),
      TradeRow(7, 1, AAPL, Buy, ToOrdinal(2025, 1, 15), None, None,
               <<"s", "a", "m", "p", "l", "e">>, SenateStockWatcher, <<>>)>>

CleanStores ==
    {[ApiStore(2, 0, 0, 0) EXCEPT !.trades = SelectSeq2(CleanTrades, keep)] :
        keep \in SUBSET (1..Len(CleanTrades))}

InitClean == Seeded(CleanStores)

NextClean ==
    \/ \E ci \in BOOLEAN, out \in {"ok", "raise"} : clean_sample_data(ci, out)
    \/ \E ci \in BOOLEAN, out \in {"ok", "raise"} :
           clean_future_and_suspicious_data(ci, out)

SpecClean == InitClean /\ [][NextClean]_vars

(***************************************************************************)
(* The store specification: collection runs without a key (the ProPublica  *)
(* collector stores no trade, and no other query depends on autoflush),    *)
(* and the maintenance scripts run between them over what the runs have    *)
(* stored.                                                                 *)
(***************************************************************************)
InitStore == Init /\ autoflush

NextStore ==
    \/ StartRun(FALSE)
    \/ Collect({FeedTrade(Al, NY, Jan15)}, {"ok"})
    \/ Scrape({RawRow(3, AppleAsset, Buy, <<"$", "2", "5", "0", "0">>)}, {"ok", "raise"})
    \/ NextClean

SpecStore == InitStore /\ [][NextStore]_vars

(***************************************************************************)
(* Two runs at once.  POST /api/collect-data runs collect_congress_data on *)
(* the Session of its request (main.py:49-58) and scheduled_collection.py  *)
(* runs it in a process of its own on a Session of its own (lines 29-50).  *)
(* Each Session reads the committed rows and the rows it added itself; the *)
(* rows another Session added are not visible to it before that Session's  *)
(* commit.  The steps of the two runs interleave in any order, except that *)
(* a run waits with its first write while the other holds uncommitted      *)
(* writes (the one-writer rule of SQLite; a store with row locks admits    *)
(* these interleavings and more).  A run is the structured feed's          *)
(* _save_senate_trade over the records it is given, then the commit.       *)
(***************************************************************************)
\* the rows a caller's Session sees
Visible(caller) ==
    [table \in DOMAIN database |-> database[table] \o concurrent[caller].added[table]]

\* the rows of a Session that are not committed yet
Pending(s) ==
    [table \in DOMAIN database |->
        SubSeq(s[table], Len(database[table]) + 1, Len(s[table]))]

\* another caller holds writes it has not committed
OtherWrites(caller) ==
    \E other \in Callers \ {caller} : concurrent[other].added # EmptyStore

\* db = SessionLocal() / Depends(get_db), then collect_congress_data(db)
ConcurrentStart(caller) ==
    /\ concurrent[caller].pc = "idle"
    /\ runs < MaxRuns
    /\ runs' = runs + 1
    /\ concurrent' = [concurrent EXCEPT ![caller] = [AtRest EXCEPT !.pc = "find"]]
    /\ UNCHANGED <<storeVars, pc, key, autoflush, feedVars, stage, scrapeVars, nrec,
                   nfault, trace, commits, response>>

\* the query of lines 77-82 for the senator of a record
ConcurrentFind(caller, trade_data) ==
    /\ concurrent[caller].pc = "find"
    /\ nrec < MaxEvents
    /\ nrec' = nrec + 1
    /\ \E member \in FirstOf(SenateMatches(Visible(caller), Get(trade_data.senator, <<>>))) :
           concurrent' = [concurrent EXCEPT ![caller].pc = "save",
                                            ![caller].trade_data = trade_data,
                                            ![caller].member = member]
    /\ UNCHANGED <<storeVars, pc, key, autoflush, feedVars, stage, scrapeVars, runs,
                   nfault, trace, commits, response>>

\* the rest of _save_senate_trade (lines 84-114) with what the query gave
ConcurrentSave(caller) ==
    /\ concurrent[caller].pc = "save"
    /\ concurrent[caller].added = EmptyStore => ~OtherWrites(caller)
    /\ LET r == SaveSenateTrade(Visible(caller), nextId,
                                concurrent[caller].trade_data,
                                concurrent[caller].member)
       IN  /\ nextId' = r.nextId
           /\ concurrent' = [concurrent EXCEPT ![caller].pc = "find",
                                               ![caller].added = Pending(r.session),
                                               ![caller].trade_data = Null,
                                               ![caller].member = 0]
    /\ UNCHANGED <<session, database, pc, key, autoflush, feedVars, stage, scrapeVars,
                   runs, nrec, nfault, trace, commits, response>>

\* db.commit() (line 419) and the end of the caller's Session
ConcurrentCommit(caller) ==
    /\ concurrent[caller].pc = "find"
    /\ database' = Commit("ok", Visible(caller), database)
    /\ concurrent' = [concurrent EXCEPT ![caller] = AtRest]
    /\ UNCHANGED <<session, nextId, pc, key, autoflush, feedVars, stage, scrapeVars,
                   runs, nrec, nfault, trace, commits, response>>

NextConcurrent ==
    \E caller \in Callers :
        \/ ConcurrentStart(caller)
        \/ \E trade_data \in FeedRecords : ConcurrentFind(caller, trade_data)
        \/ ConcurrentSave(caller)
        \/ ConcurrentCommit(caller)

SpecConcurrent == InitStore /\ [][NextConcurrent]_vars

(***************************************************************************)
(* Properties of the collection runs.                                      *)
(***************************************************************************)
\* the date texts of the feed that hold no date: absent, null, empty, or a
\* day that does not exist
NoDate == {Missing, Null, <<>>, Feb30}

\* C1: a feed record whose transaction date is missing or is no date adds no
\* Trade: _save_senate_trade leaves the trades of the session as they were,
\* whatever the other fields of the record are.
C1_BadDateAddsNoTrade ==
    [][\A trade_data \in FeedRecords :
           (trade_data.transaction_date \in NoDate /\ SenateRecord(trade_data))
               => session'.trades = session.trades]_vars

\* C1, reached: a record with a date that is no date has made its senator
\* and raised, and the session holds no trade.
C1_Reached ==
    /\ pc = "feed_records"
    /\ outcomes = <<"raised">>
    /\ Len(session.members) = 1
    /\ session.trades = <<>>

SameLegislator(a, b) == a.name = b.name /\ a.chamber = b.chamber

FaultMarks == {"feed_fault", "propublica_fault", "scrape_fault", "senate_fault"}

\* the starts and ends of the collectors in trace
Steps == SelectSeq(trace, LAMBDA x : x \notin FaultMarks)

IsPrefix(a, b) == Len(a) <= Len(b) /\ a = SubSeq(b, 1, Len(a))

\* the order of lines 402-416 of data_collector.py and 289-293 of
\* real_data_scraper.py
CodeOrder(k) ==
    <<"feed", "feed_end", "house", "house_end">>
        \o (IF k THEN <<"propublica", "propublica_end">> ELSE <<>>)
        \o <<"scrape", "senate", "scrape_end">>

\* C9 as amended: the collectors of a run execute in the fixed order
\* structured feed, House stubs, ProPublica if a key was given, then the
\* free-text scraper (the House pages, then the Senate step), each starting
\* after the one before it has ended.
C9_CollectorsInCodeOrder == IsPrefix(Steps, CodeOrder(key))

\* C9, reached: a run with a key has ended all its collectors.
C9_Reached ==
    /\ pc = "commit"
    /\ key
    /\ Steps = CodeOrder(TRUE)

\* C9 as stated: ProPublica comes last, so it does not start before the
\* free-text scraper has ended.
C9_ProPublicaLast ==
    \A i \in 1..Len(trace) :
        trace[i] = "propublica" => \E j \in 1..i : trace[j] = "scrape_end"

\* the rows a collector added in the run under way
ThisRun(rows) == {r \in Range(rows) : r.run = runs}

\* C10: a source whose first request fails (no answer, a non-success status
\* or an exception) adds no row in this run, and at the end of the run every
\* source has been started, whatever failed before it.
C10_SourceFailureIsolated ==
    /\ "feed_fault" \in Range(trace) =>
           /\ \A t \in ThisRun(session.trades) : t.source # SenateStockWatcher
           /\ \A m \in ThisRun(session.members) : m.by # "feed"
    /\ "propublica_fault" \in Range(trace) =>
           /\ \A m \in ThisRun(session.members) : m.by # "propublica"
           /\ ThisRun(session.committees) = {}
    /\ "scrape_fault" \in Range(trace) =>
           /\ \A t \in ThisRun(session.trades) : t.source # HouseClerkWebsite
           /\ \A m \in ThisRun(session.members) : m.by # "scrape"
    /\ "senate_fault" \in Range(trace) =>
           \A t \in ThisRun(session.trades) : t.source # SenateFinancialDisclosures
    /\ pc = "commit" =>
           /\ {"feed", "house", "scrape", "senate"} \subseteq Range(trace)
           /\ key => "propublica" \in Range(trace)

\* C10, reached: the listing of the feed failed, and the House scraper of
\* the same run has stored a trade.
C10_Reached ==
    /\ pc = "commit"
    /\ "feed_fault" \in Range(trace)
    /\ \E t \in ThisRun(session.trades) : t.source = HouseClerkWebsite

(***************************************************************************)
(* Properties of amount parsing.                                           *)
(***************************************************************************)
RangeText == <<"1", ",", "0", "0", "0", "-", "5", ",", "0", "0", "0">>

BareText == <<"$", "2", "5", "0", "0">>

GarbageText == <<"a", "b", "c">>

\* C4 as stated: a trade made from the amount text "1,000-5,000" has
\* amount_min 1000 and amount_max 5000, and one made from "$2500" has both
\* at 2500, whichever collector parsed the text.
C4_RangeAndBareAmounts ==
    \A t \in Range(session.trades) :
        /\ RangeText \in Range(t.raw)
               => t.amount_min = Num(1000) /\ t.amount_max = Num(5000)
        /\ BareText \in Range(t.raw)
               => t.amount_min = Num(2500) /\ t.amount_max = Num(2500)

\* C5 as stated: a trade made from an amount text that is no amount is
\* stored with amount_min and amount_max both None, whichever collector
\* parsed the text.
C5_GarbageAmountUnset ==
    \A t \in Range(session.trades) :
        GarbageText \in Range(t.raw) => t.amount_min = None /\ t.amount_max = None

(***************************************************************************)
(* Properties of the serving path.                                         *)
(***************************************************************************)
\* C6: an answer of a listing endpoint holds at most limit items, and a
\* request with a limit above 1000 or below 1 is answered 422 with no item
\* and without a query.
C6_LimitBoundsListing ==
    response.kind = "api" =>
        /\ Len(response.items) <= response.limit
        /\ (response.limit > 1000 \/ response.limit < 1) =>
               /\ response.status = 422
               /\ response.items = <<>>
               /\ ~response.queried

\* C6, reached: get_trades answered a request with limit 2 over a store of
\* three trades with two of them.
C6_Reached ==
    /\ response.kind = "api"
    /\ response.endpoint = "get_trades"
    /\ response.status = 200
    /\ response.limit = 2
    /\ Len(response.items) = 2
    /\ Len(database.trades) = 3

\* C7: get_members_by_chamber with a chamber that is, in any case of its
\* letters, neither house nor senate answers 400 (422 when skip or limit are
\* not valid either), returns no item and has not queried the store.
C7_InvalidChamberRejected ==
    (/\ response.kind = "api"
     /\ response.endpoint = "get_members_by_chamber"
     /\ LowerStr(response.arg) \notin {house, senate})
        => /\ response.status =
                  IF response.skip >= 0 /\ response.limit >= 1 /\ response.limit <= 1000
                  THEN 400 ELSE 422
           /\ response.items = <<>>
           /\ ~response.queried

\* C7, reached: the chamber xyz was answered 400 over a store with members.
C7_Reached ==
    /\ response.kind = "api"
    /\ response.endpoint = "get_members_by_chamber"
    /\ response.arg = <<"x", "y", "z">>
    /\ response.status = 400
    /\ database.members # <<>>

(***************************************************************************)
(* Properties of the maintenance scripts.                                  *)
(***************************************************************************)
TargetedLabels(script) ==
    IF script = "clean_sample_data"
    THEN {"Sample Data", "Realistic Trading Data", "Senate Sample Data",
          "House Sample Data"}
    ELSE {"Senate Financial Disclosures", "House Clerk Website", "Sample Data",
          "Realistic Trading Data"}

TargetedWords(script) ==
    IF script = "clean_sample_data"
    THEN {<<"s", "a", "m", "p", "l", "e">>,
          <<"r", "e", "a", "l", "i", "s", "t", "i", "c">>,
          <<"g", "e", "n", "e", "r", "a", "t", "e", "d">>}
    ELSE {<<"S", "e", "n", "a", "t", "e", " ", "d", "i", "s", "c", "l", "o", "s",
            "u", "r", "e">>,
          <<"S", "c", "r", "a", "p", "e", "d", " ", "f", "r", "o", "m", " ", "H",
            "o", "u", "s", "e">>,
          <<"s", "a", "m", "p", "l", "e">>,
          <<"r", "e", "a", "l", "i", "s", "t", "i", "c">>}

\* a trade the script is after: by its label, by a word of its description
\* (in any case of its letters when ci), or, for clean_future_data, by a date
\* after today
Marked(t, script, ci) ==
    \/ t.source \in TargetedLabels(script)
    \/ \E word \in TargetedWords(script) :
           SqlLike(t.description, <<"%">> \o word \o <<"%">>, ci)
    \/ script = "clean_future_and_suspicious_data" /\ t.transaction_date > Today

\* C8 as amended: a maintenance run that commits removes the trades with a
\* targeted label, those whose description holds one of its words, and for
\* clean_future_data those dated after today, and no other trade; a run that
\* raises removes nothing.
C8_RemovesMarkedOnly ==
    response.kind = "clean" =>
        IF response.committed
        THEN /\ Range(database.trades) \subseteq Range(response.before)
             /\ \A t \in Range(response.before) \ Range(database.trades) :
                    Marked(t, response.script, TRUE)
             /\ \A t \in Range(database.trades) : ~Marked(t, response.script, FALSE)
        ELSE database.trades = response.before

\* C8, reached: clean_sample_data committed and removed a trade of the feed.
C8_Reached ==
    /\ response.kind = "clean"
    /\ response.script = "clean_sample_data"
    /\ response.committed
    /\ \E t \in Range(response.before) \ Range(database.trades) :
           t.source = SenateStockWatcher

\* C8 as stated: a run that commits lowers the number of trades by the
\* number of trades with a targeted label, and removes no trade with another.
C8_RemovesByLabelOnly ==
    (response.kind = "clean" /\ response.committed) =>
        /\ Len(response.before) - Len(database.trades) =
               Cardinality({t \in Range(response.before) :
                               t.source \in TargetedLabels(response.script)})
        /\ \A t \in Range(response.before) :
               t.source \notin TargetedLabels(response.script)
                   => t \in Range(database.trades)

(***************************************************************************)
(* Properties of what a run keeps and commits.                             *)
(***************************************************************************)
\* the collectors are at work: the run has started and is not yet at one of
\* its closing commits
Collecting == pc \notin {"idle", "scrape_commit", "commit"}

\* C11: whatever fails in a later source, the trades and legislators the run
\* has stored so far stay in its session, to be persisted when the run
\* ends: no step of a collector discards a row that the run added.
C11_EarlierWorkKept ==
    [][Collecting =>
          /\ ThisRun(session.trades) \subseteq Range(session'.trades)
          /\ ThisRun(session.members) \subseteq Range(session'.members)]_vars

\* C12: a run commits once, at its end: no commit has been issued while the
\* run is under way.
C12_SingleCommitAtEnd == commits = 0

C14_NoKeyNoPropublica ==
    (pc # "idle" /\ ~key) =>
        /\ pc \notin {"propublica", "propublica_records"}
        /\ "propublica" \notin Range(trace)
        /\ \A m \in ThisRun(session.members) : m.by # "propublica"
        /\ ThisRun(session.committees) = {}
        /\ pc = "commit" =>
               {"feed", "house", "scrape", "senate"} \subseteq Range(trace)

\* C14, reached: a run without a key is at its end, with a trade of the
\* feed and none of its collectors failed.
C14_Reached ==
    /\ pc = "commit"
    /\ ~key
    /\ Steps = CodeOrder(FALSE)
    /\ \E t \in ThisRun(session.trades) : t.source = SenateStockWatcher

(***************************************************************************)
(* Properties of the by-parent listings and of the order of trades.        *)
(***************************************************************************)
\* the rows among which a by-parent listing looks its parent up
ParentsOf(endpoint) ==
    IF endpoint \in {"get_trades_by_member", "get_member_committees"}
    THEN Members ELSE Committees

\* C15: a by-parent listing asked for a parent id that does not exist
\* answers 404 and no list.
C15_MissingParentNotFound ==
    (/\ response.kind = "api"
     /\ response.endpoint \in {"get_trades_by_member", "get_committee_members",
                               "get_committee_memberships", "get_member_committees"}
     /\ response.skip >= 0
     /\ response.limit \in 1..LimitCeiling
     /\ \A r \in ParentsOf(response.endpoint) : r.id # response.arg)
        => /\ response.status = 404
           /\ response.items = <<>>

TradeListings ==
    {"get_trades", "get_recent_trades", "get_trades_by_member", "get_trades_by_ticker"}

\* the stored trade of an id
TradeOfId(id) == CHOOSE t \in Trades : t.id = id

\* C17: a page of a trade listing runs by falling transaction date, and
\* trades of the same date follow in the order of their insertion.
C17_DateDescStableTies ==
    (response.kind = "api" /\ response.endpoint \in TradeListings /\ response.status = 200)
        => \A i, j \in 1..Len(response.items) :
               i < j =>
                   LET a == TradeOfId(response.items[i])
                       b == TradeOfId(response.items[j])
                   IN  \/ a.transaction_date > b.transaction_date
                       \/ a.transaction_date = b.transaction_date /\ a.id < b.id

\* C19: under a supplied min_amount (max_amount) alone, 0 included, the
\* first page of get_trades that is long enough for the store holds exactly
\* the trades whose exact amount or range bound clears the threshold; a
\* trade without both never passes.
C19_AmountFilterApplied ==
    (/\ response.kind = "api"
     /\ response.endpoint = "get_trades"
     /\ response.status = 200
     /\ response.skip = 0
     /\ response.limit >= Cardinality(Trades))
        => /\ \A x \in {Num(0), Num(2500)} :
                  response.arg = [NoFilter EXCEPT !.min_amount = x] =>
                      Range(response.items) =
                          IdsOf({t \in Joined : AtLeast(t.amount_exact, x) \/ AtLeast(t.amount_min, x)})
           /\ \A x \in {Num(0), Num(2500)} :
                  response.arg = [NoFilter EXCEPT !.max_amount = x] =>
                      Range(response.items) =
                          IdsOf({t \in Joined : AtMost(t.amount_exact, x) \/ AtMost(t.amount_max, x)})

(***************************************************************************)
(* Properties of the feed's files.                                         *)
(***************************************************************************)
\* C20: a file of the feed whose request raises, answers another status
\* than 200 or does not parse, and a file left at a record, end that file
\* only: the collector stays in the loop over the listing, with every later
\* entry still to come and the store as it was.
C20_FileFailureIsolated ==
    [][/\ (\E out \in Outcomes \ {"ok"} : ProcessSenateFile(out, 0))
           => /\ pc' = "feed_files"
              /\ files' = files - 1
              /\ session' = session
              /\ trace' = trace
       /\ (pc = "feed_records" /\ pc' # "feed_records")
           => /\ pc' = "feed_files"
              /\ files' = files - 1]_vars

\* C20, reached: in a run the first of two files failed, and the second one
\* was fetched and its record is being stored.
C20_Reached ==
    /\ runs = 1
    /\ pc = "feed_records"
    /\ nfault = 1
    /\ files = 1
    /\ batch = 1

(***************************************************************************)
(* Properties of the statistics.                                           *)
(***************************************************************************)
\* C16: over a store without trades and members the statistics are answered
\* 200 with all counts 0, an empty top list and empty maps by chamber and
\* by party.
C16_EmptyStoreStats ==
    (/\ response.kind = "stats"
     /\ database.trades = <<>>
     /\ database.members = <<>>)
        => /\ response.status = 200
           /\ response.total_trades = 0
           /\ response.total_members = 0
           /\ response.total_committees = 0
           /\ response.recent_trades_count = 0
           /\ response.top_traded_stocks = <<>>
           /\ DOMAIN response.trades_by_chamber = {}
           /\ DOMAIN response.trades_by_party = {}

\* C16, reached: the statistics of the empty store were answered.
C16_Reached ==
    /\ response.kind = "stats"
    /\ database = EmptyStore

\* a comes before b in the top list as claimed: more trades, or as many and
\* the ticker first in lexical order
RanksBefore(a, b) ==
    \/ a.trade_count > b.trade_count
    \/ a.trade_count = b.trade_count /\ a.ticker # b.ticker /\ StrLE(a.ticker, b.ticker)

\* C18: the top list holds at most 10 tickers, those with the most trades,
\* by falling count and, among equal counts, in the lexical order of the
\* tickers.
C18_TopTradedDetermined ==
    response.kind = "stats" =>
        LET top == response.top_traded_stocks
        IN  /\ Len(top) = Min(TopCeiling, Cardinality(TickerGroups))
            /\ \A i \in 1..Len(top) : top[i] \in TickerGroups
            /\ \A i, j \in 1..Len(top) : i < j => RanksBefore(top[i], top[j])
            /\ \A g \in TickerGroups \ Range(top) :
                   \A i \in 1..Len(top) : RanksBefore(top[i], g)

(***************************************************************************)
(* Properties of the stored trades.                                        *)
(***************************************************************************)
\* C21: a stored trade that has both amount_min and amount_max has
\* amount_min <= amount_max, whatever the amount texts of its record were.
C21_MinAtMostMax ==
    \A t \in Range(session.trades) :
        (t.amount_min # None /\ t.amount_max # None)
            => FloatLE(t.amount_min, t.amount_max)

\* the legislator a trade of the session is attached to
LegislatorOf(t) == CHOOSE m \in Range(session.members) : m.id = t.member_id

\* C22: a trade the House disclosure collector stored is attached to a House
\* legislator, and one the Senate feed collector stored to a Senate
\* legislator.
C22_ChamberMatched ==
    \A t \in Range(session.trades) :
        /\ t.source = HouseClerkWebsite => LegislatorOf(t).chamber = House
        /\ t.source = SenateStockWatcher => LegislatorOf(t).chamber = Senate

C24_KindInEnum ==
    \A t \in Range(session.trades) :
        t.transaction_type \in {Buy, <<"S", "e", "l", "l">>,
                                <<"E", "x", "c", "h", "a", "n", "g", "e">>}

(***************************************************************************)
(* Properties of the writers of a run.                                     *)
(***************************************************************************)
\* the rows a step adds to the session
Added ==
    UNION {Range(session'[table]) \ Range(session[table]) :
              table \in {"members", "trades", "committees"}}

\* the start mark of the collector that writes a row
WriterMark(r) ==
    IF "source" \in DOMAIN r
    THEN CASE r.source = SenateStockWatcher -> "feed"
           [] r.source = HouseClerkWebsite -> "scrape"
           [] r.source = SenateFinancialDisclosures -> "senate"
    ELSE CASE r.by = "feed" -> "feed"
           [] r.by = "propublica" -> "propublica"
           [] r.by = "scrape" -> "scrape"

\* C25: every row a run adds is written by the collector that started last,
\* and the collectors started before it, in the order of the code, have all
\* ended: no two collectors of a run write at the same time.
C25_SingleWriter ==
    [][\A r \in Added :
           /\ Steps # <<>>
           /\ Steps[Len(Steps)] = WriterMark(r)
           /\ IsPrefix(Steps, CodeOrder(key))]_vars

\* C25, reached: the feed collector and the scraper have both written in one
\* run.
C25_Reached ==
    /\ pc = "scrape_senate"
    /\ \E t \in ThisRun(session.trades) : t.source = SenateStockWatcher
    /\ \E t \in ThisRun(session.trades) : t.source = HouseClerkWebsite

\* C26: a run fetches at most 10 detail pages of the House index, however
\* many links the index page holds.
C26_BoundedFanOut == fetched <= LinkCap

\* C26, reached: the index page held more links than the cap, and the run
\* has fetched as many pages as the cap allows and follows no further link.
C26_Reached ==
    /\ pc = "scrape_links"
    /\ links = 0
    /\ fetched = LinkCap

\* every trade of a store is attached to a Legislator of that store
Attached(s) ==
    \A t \in Range(s.trades) : \E m \in Range(s.members) : m.id = t.member_id

\* C27: through collection runs and maintenance runs in any order, every
\* trade the session or the database holds refers to a Legislator held
\* there too.
C27_TradesAttached == Attached(session) /\ Attached(database)

\* C27, reached: a maintenance script has deleted trades of a store that a
\* run filled, and trades and their Legislators are left.
C27_Reached ==
    /\ response.kind = "clean"
    /\ response.committed
    /\ Len(database.trades) < Len(response.before)
    /\ database.trades # <<>>

(***************************************************************************)
(* Properties of what a rejected or a repeated record leaves.               *)
(***************************************************************************)
\* the Legislators the feed collector made in the run under way that have no
\* trade
Tradeless(s) ==
    {m \in ThisRun(s.members) :
        m.by = "feed" /\ \A t \in Range(s.trades) : t.member_id # m.id}

\* C28: a feed record of a senator the store does not hold, with a date that
\* is no date, adds no Trade and adds the Legislator; the Legislator stays in
\* the session for the rest of the run, and the commit at the end of the run,
\* when it succeeds, persists it.
C28_RejectedKeepsLegislator ==
    [][/\ \A trade_data \in FeedRecords :
              (/\ trade_data.dict
               /\ Truthy(trade_data.senator)
               /\ trade_data.state # Null
               /\ trade_data.transaction_date \in NoDate
               /\ SenateMatches(session, trade_data.senator) = {}
               /\ SenateRecord(trade_data))
                  => /\ session'.trades = session.trades
                     /\ \E m \in Tradeless(session') : m.name = trade_data.senator
       /\ pc \notin {"idle", "commit"}
              => Tradeless(session) \subseteq Range(session'.members)
       /\ (pc = "commit" /\ response'.status = 200)
              => Tradeless(session) \subseteq Range(database'.members)]_vars

\* a trade without what tells two copies of it apart
Content(t) == [t EXCEPT !.id = 0, !.run = 0]

\* C29: a record that is stored adds exactly one Trade, whether or not the
\* session holds a Trade like it, and a record or a page whose Legislator an
\* earlier run stored adds no Legislator.
C29_NoDeduplication ==
    [][/\ (/\ pc \in {"feed_records", "scrape_rows"}
           /\ pc' = pc
           /\ Len(outcomes') = Len(outcomes) + 1
           /\ outcomes'[Len(outcomes')] = "stored")
              => /\ Len(session'.trades) = Len(session.trades) + 1
                 /\ SubSeq(session'.trades, 1, Len(session.trades)) = session.trades
       /\ \A trade_data \in FeedRecords :
              (/\ SenateRecord(trade_data)
               /\ \E m \in Range(session.members) :
                      m.run < runs /\ m.chamber = Senate /\ m.name = trade_data.senator)
                  => session'.members = session.members
       /\ (/\ pc = "scrape_rows"
           /\ pc' = pc
           /\ \E m \in Range(session.members) : m.run < runs /\ m.name = member_name)
              => session'.members = session.members]_vars

\* C29, reached: the second run has stored a Trade that the first run had
\* stored already, and has added no Legislator.
C29_Reached ==
    /\ runs = 2
    /\ pc = "commit"
    /\ ThisRun(session.members) = {}
    /\ \E t \in ThisRun(session.trades) :
           \E u \in Range(session.trades) : u.run = 1 /\ Content(u) = Content(t)

\* C30: with two collection runs at once, each on its own Session, the
\* database never holds two Legislators of one name and chamber, however the
\* find-then-create steps and the commits of the two runs interleave.
C30_NoTwinLegislators ==
    \A a, b \in Range(database.members) : SameLegislator(a, b) => a.id = b.id

====
